---- MODULE Spec2Model ----
(***************************************************************************)
(* Connection pool (responses_agent/clients/base.py) and session store     *)
(* (agent_kit/api/core.py) of agent-kit, as state machines.                *)
(*                                                                         *)
(* Both run on one asyncio event loop: code between two suspension points  *)
(* is one atomic step.  An asyncio.Lock or Condition that is free is       *)
(* acquired without a pause, so a critical section with no await in it     *)
(* is one action; a critical section that awaits (Condition.wait in        *)
(* get_connection, asyncio.gather in cleanup_expired) is split at the      *)
(* await.  Time is counted in whole seconds.                               *)
(***************************************************************************)
EXTENDS Integers, Sequences, FiniteSets, TLC

\* ---------------------------------------------------------------- bounds
NumCallers == 2        \* tasks that call the pool
MaxTime == 11          \* the monotonic clock stops here
MaxErrors == 3         \* record_error calls in one run
MaxCalls == 4          \* responses_create calls in one run
MaxFaults == 1         \* failures of the factory and of closing, together, in one run
MaxCloses == 1         \* close() calls in one run
PoolSize == 2          \* factory.pool_size (configuration, >= 1)
RequestTimeout == 2    \* factory.request_timeout (configuration, > 0), seconds
NumClients == 2        \* adapter tasks that use the session store
MaxSessions == 1       \* sessions created in one run
MaxAgents == 2         \* agent instances constructed in one run
MaxWall == 2           \* the wall clock stops here
MaxStores == 2         \* store_result calls in one run
DefaultTtl == 1        \* SessionStore.default_ttl (configuration, > 0), seconds

\* ------------------------------------------------------ program constants
NoDeadline == -1       \* unhealthy_until is None
ErrorThreshold == 3    \* consecutive errors that start a quarantine
QuarantineSecs == 10   \* length of the quarantine, seconds
WaitSlice == 1         \* longest single wait on the condition, seconds

Callers == 1..NumCallers
Clients == 1..NumClients
Kinds == {"HelloAgent"}    \* the agent classes of the repository
SessionIds == 1..MaxSessions

\* The ids get_session and delete_session are called with: every id that can
\* be stored and one that never is.
AskedIds == 1..MaxSessions + 1

\* The agent keys results are stored under, and the keyword arguments
\* (**metadata) store_result is called with: none, or a name and a timestamp.
\* The result of the n-th store_result call is the object n.
ResultKeys == {"HelloAgent", "OtherAgent"}
Metadatas == {[x \in {} |-> 0], [name |-> "n", timestamp |-> -1]}

\* No store call of the client waits.
NotWaiting == [op |-> "", session_id |-> 0]

\* No response received: the response of an upstream call is incomplete or
\* not, has function calls or not, and has no output_text, one that parses as
\* the response format, or one that does not.
NoResponse == [incomplete |-> FALSE, has_tool_calls |-> FALSE, output_text |-> "none"]

\* No request served yet.
NoRequest == [endpoint |-> "", bearer |-> "", session_id |-> 0]

\* The MCP session ids tool calls carry (ctx.session_id), and a tool call
\* that is not running.
McpIds == {"mcp-1"}
NoCall == [pos |-> "idle", mcp_sid |-> "", agent_sid |-> 0]

VARIABLES
    mono,            \* time.monotonic() / loop.time()
    is_initialized,  \* ConnectionPool.is_initialized
    connections,     \* ConnectionPool.connections: sequence of PooledConnection
    current_index,   \* ConnectionPool.current_index (0-based, as in the code)
    pc,              \* per caller: where it is in get_connection / its checkout
    start_time,      \* per caller: start_time of its get_connection call
    deadline,        \* per caller: when its wait_for on the condition times out
    held,            \* per caller: position of the connection it holds, 0 if none
    errors,          \* record_error calls made so far (bounded by MaxErrors)
    lastAcq,         \* history: position of the connection returned last, 0 if none
    wokenBy,         \* history: per caller, the healthy connection whose return notified it
    requalified,     \* history: connections checked out after their quarantine ran out
    wall,            \* datetime.now(), in seconds
    sessions,        \* SessionStore.sessions: session id -> the session stored under it
    last_accessed,   \* AgentSession.last_accessed, per session object
    agents,          \* AgentSession.agents, per session object: kind -> instance, 0 if none
    store_lock,      \* SessionStore._lock: "free", or "sweeper" during cleanup_expired
    expired_checks,  \* cleanup_expired: the results gathered so far, per session
    ref,             \* per client: the session it got from get_session, 0 if None
    returned,        \* the instance the last use_agent call returned, 0 if none yet
    next_id,         \* the next fresh session id (uuid4)
    next_agent,      \* the next fresh agent instance
    built,           \* history: instances constructed per session and kind since its last clear
    last_lookup,     \* history: per session, when get_session last returned it (0: never)
    deleted,         \* what delete_session returned to the last caller that kept it, "none" if none
    agent_results,   \* AgentSession.agent_results, per session object: key -> <<entry>>, <<>> if none
    stores,          \* store_result calls made so far (bounded by MaxStores)
    connection,      \* responses_create: the PooledConnection its calls are made on
                     \* (is_in_use, consecutive_errors, unhealthy_until)
    stats,           \* the counters of that connection: request_count, error_count
    rpc,             \* responses_create: where the call is
    response,        \* responses_create: what the call gives its caller
    calls,           \* responses_create calls made so far (bounded by MaxCalls)
    upstream,        \* history: upstream calls that returned (ok) and that raised (failed)
    last_stored,     \* history: per session and key, the arguments of the last store_result
                     \* with no clear after it: <<[result, metadata, at]>>, <<>> if none
    shared_http_client, \* ConnectionPool.shared_http_client: the transport, 0 if None
    pool_lock,       \* the lock of pool_condition: the caller inside initialize() or
                     \* close() that holds it, 0 if free
    life,            \* per caller: where it is in initialize / get_connection / close
    building,        \* initialize: the list under construction at line 89
    clients,         \* PooledConnection.client, per position of `connections`:
                     \* [client, http_client]
    lease,           \* per caller: the connection get_connection returned to it
                     \* ([client, http_client]), 0 if none
    closing,         \* close: [at: connections gone through, attempted: the clients
                     \* whose close was tried, failed: those whose close raised,
                     \* http_client: the transport whose aclose was tried,
                     \* http_failed: that aclose raised]
    made,            \* history: transports and clients constructed so far
    faults,          \* history: failures of the factory and of closing (bounded)
    closes,          \* history: close() calls that have completed
    closed_mark,     \* history: `made` when the last close() completed
    since,           \* history: per caller, closed_mark when its get_connection began
    lookup_age,      \* history: <<the age the session had>> when get_session last
                     \* returned one to a caller that looked, << >> if it returned None
    last_active_agent, \* AgentSession.last_active_agent, per session object, "" if None
    progress_handler, \* AgentSession.progress_handler, per session object: the request
                     \* whose handler is bound, 0 if the session is not constructed
    agent_handler,   \* BaseAgent.progress_handler, per agent instance, 0 if not constructed
    req,             \* per request of the REST adapter: where it is
    using,           \* per request: the agent use_agent returned to it, 0 if none
    delivered,       \* history: per request, the handler that got the progress the
                     \* agent emitted while serving it, 0 if none yet
    writes,          \* history: the writes made to fields of constructed sessions,
                     \* [field, under: the locks the writer held]
    mcp_map,         \* _mcp_to_agent_session: MCP session id -> agent session id
    tool,            \* per MCP tool call: [pos, mcp_sid, agent_sid]
    created_for,     \* history: per MCP session id, the agent sessions created for it
    http_config,     \* config.interfaces.http: [auth_enabled, oauth_configured]
    jwks_cached,     \* _jwks_cache holds the issuer's keys, not expired
    http_status,     \* the status code of the response being sent, 0 if none
    http_last,       \* history: the request being answered, [endpoint, bearer: what
                     \* its token is to the server, session_id]
    debug_prompts,   \* config.debug_prompts.enabled
    sweep_task,      \* the task periodic_session_cleanup: "running", or where it was
                     \* when it was cancelled
    session_lock,    \* AgentSession._lock, per session object: "free" or its holder
    gen,             \* where the event generator of a request is
    task,            \* the task of agent.process(query) of a request
    queue,           \* the asyncio.Queue of a request's RESTProgressHandler
    yielded,         \* the data events a request's generator has yielded
    emitted,         \* how many events a request's task has emitted
    last_request,    \* history: per session, when a client's request last created
                     \* or asked for it
    pending,         \* per client, the store call that waits for the store's lock
    conv             \* execute_tool_conversation: where it is, its arguments, its
                     \* iteration counter, the upstream calls made, the last response

poolVars == <<mono, is_initialized, connections, current_index, pc, start_time,
              deadline, held, errors, lastAcq, wokenBy, requalified>>

storeVars == <<wall, sessions, last_accessed, agents, store_lock, expired_checks,
                   ref, returned, next_id, next_agent, built,
               last_lookup>>

\* What the actions of the pool leave alone, and those of the store.
resultVars == <<agent_results, stores, last_stored>>

requestVars == <<connection, stats, rpc, response, calls, upstream>>

lifeVars == <<shared_http_client, pool_lock, life, building, clients, lease,
              closing, made, faults, closes, closed_mark, since>>

\* What the protocol adapters keep and what they see.
restVars == <<progress_handler, agent_handler, req, using, delivered, writes>>
mcpVars == <<mcp_map, tool, created_for>>
authVars == <<http_config, jwks_cached, http_status, http_last>>
debugVars == <<debug_prompts>>
sweepVars == <<sweep_task, session_lock>>
streamVars == <<gen, task, queue, yielded, emitted>>
mappingVars == <<last_request>>
lockVars == <<pending>>
convVars == <<conv>>
serverVars == <<authVars, debugVars, sweepVars, streamVars, mappingVars, lockVars,
                convVars>>
adapterVars == <<lookup_age, last_active_agent, restVars, mcpVars, serverVars>>

nonPoolVars == <<storeVars, deleted, resultVars, requestVars, lifeVars, adapterVars>>
otherVars == <<poolVars, requestVars, lifeVars>>
nonStoreVars == <<otherVars, adapterVars>>

vars == <<poolVars, storeVars, deleted, resultVars, requestVars, lifeVars, adapterVars>>

\* ------------------------------------------------------- PooledConnection
NewConnection ==
    [is_in_use |-> FALSE, consecutive_errors |-> 0, unhealthy_until |-> NoDeadline]

\* A record_success that leaves the quarantine in place.
record_success_keeps_quarantine(conn) == [conn EXCEPT !.consecutive_errors = 0]

\* record_success, lines 35-37 (request_count: count_success).
record_success(conn) ==
    [conn EXCEPT !.consecutive_errors = 0, !.unhealthy_until = NoDeadline]

\* record_error, lines 39-42 (error_count: count_error).
record_error(conn, now) ==
    LET n == conn.consecutive_errors + 1
    IN  [conn EXCEPT !.consecutive_errors = n,
                     !.unhealthy_until = IF n >= ErrorThreshold
                                         THEN now + QuarantineSecs
                                         ELSE conn.unhealthy_until]

EligibleIgnoringInUse(conn, now) ==
    conn.unhealthy_until = NoDeadline \/ now >= conn.unhealthy_until

EligibleIgnoringQuarantine(conn, now) ==
    ~conn.is_in_use

\* The test of line 106: free, and not quarantined at `now`.
Eligible(conn, now) ==
    /\ ~conn.is_in_use
    /\ (conn.unhealthy_until = NoDeadline \/ now >= conn.unhealthy_until)

\* --------------------------------------------------------- ConnectionPool
Min(a, b) == IF a <= b THEN a ELSE b

\* The for loop of lines 103-108: `left` scan steps remain, the index is idx.
\* The result is the position found (0: none) and the index left behind.
RECURSIVE ScanLoop(_, _, _, _)
ScanLoop(conns, idx, now, left) ==
    IF left = 0
    THEN [found |-> 0, index |-> idx]
    ELSE LET next == (idx + 1) % Len(conns)
         IN  IF Eligible(conns[idx + 1], now)
             THEN [found |-> idx + 1, index |-> next]
             ELSE ScanLoop(conns, next, now, left - 1)

ScanFromFirst(conns, idx, now) == ScanLoop(conns, 0, now, Len(conns))

Scan(conns, idx, now) == ScanLoop(conns, idx, now, Len(conns))

\* initialize(): with the pool's lock free and a factory that does not suspend
\* (OpenAIConnectionFactory.create_client), the whole call is one step.
Initialized(conns) ==
    IF is_initialized THEN conns ELSE [i \in 1..PoolSize |-> NewConnection]

TimedOutOneSliceEarly(elapsed) == elapsed + WaitSlice >= RequestTimeout

\* The test of line 109.
TimedOut(elapsed) == elapsed >= RequestTimeout

\* One pass of the while loop of get_connection by caller t, from the lock
\* being taken to the return, the raise or the wait.
ScanStep(t, conns, started) ==
    LET r == Scan(conns, current_index, mono)
        elapsed == mono - started
    IN  /\ current_index' = r.index
        /\ wokenBy' = [wokenBy EXCEPT ![t] = 0]
        /\ IF r.found # 0
           THEN /\ connections' = [conns EXCEPT ![r.found].is_in_use = TRUE]
                /\ held' = [held EXCEPT ![t] = r.found]
                /\ pc' = [pc EXCEPT ![t] = "holding"]
                /\ lastAcq' = r.found
                /\ requalified' = IF conns[r.found].unhealthy_until # NoDeadline
                                  THEN requalified \cup {r.found} ELSE requalified
                /\ start_time' = [start_time EXCEPT ![t] = 0]
                /\ deadline' = [deadline EXCEPT ![t] = 0]
           ELSE /\ connections' = conns
                /\ UNCHANGED <<held, lastAcq, requalified>>
                /\ IF TimedOut(elapsed)
                   THEN /\ pc' = [pc EXCEPT ![t] = "failed"]
                        /\ start_time' = [start_time EXCEPT ![t] = 0]
                        /\ deadline' = [deadline EXCEPT ![t] = 0]
                   ELSE /\ pc' = [pc EXCEPT ![t] = "waiting"]
                        /\ start_time' = [start_time EXCEPT ![t] = started]
                        /\ deadline' = [deadline EXCEPT ![t] =
                               mono + Min(WaitSlice, RequestTimeout - elapsed)]

\* get_connection is called: initialize if needed, record the start, first scan.
GetConnection(t) ==
    /\ pc[t] = "idle"
    /\ mono + RequestTimeout <= MaxTime
    /\ is_initialized' = TRUE
    /\ ScanStep(t, Initialized(connections), mono)
    /\ UNCHANGED <<mono, errors, nonPoolVars>>

StartOfThisPass(t) == mono

\* start_time is read once, before the loop (line 98).
StartOf(t) == start_time[t]

\* The wait_for of line 114 timed out: the caller scans again.
WaitTimeout(t) ==
    /\ pc[t] = "waiting"
    /\ mono >= deadline[t]
    /\ ScanStep(t, connections, StartOf(t))
    /\ UNCHANGED <<mono, is_initialized, errors, nonPoolVars>>

\* A notified caller runs again: it scans again.
Rescan(t) ==
    /\ pc[t] = "notified"
    /\ ScanStep(t, connections, StartOf(t))
    /\ UNCHANGED <<mono, is_initialized, errors, nonPoolVars>>

\* return_connection(conn) by caller t, which holds conn; conns is the pool
\* with the outcome of the upstream call recorded.  notify_all wakes every
\* caller waiting on the condition.
ReturnConnection(t, conns) ==
    LET c == held[t]
        healthy == conns[c].unhealthy_until = NoDeadline
                   \/ mono >= conns[c].unhealthy_until
    IN  /\ connections' = [conns EXCEPT ![c].is_in_use = FALSE]
        /\ pc' = [u \in Callers |->
                    IF u = t THEN "idle"
                    ELSE IF pc[u] = "waiting" THEN "notified" ELSE pc[u]]
        /\ wokenBy' = [u \in Callers |->
                    IF u # t /\ pc[u] = "waiting" /\ healthy THEN c ELSE wokenBy[u]]
        /\ deadline' = [u \in Callers |->
                    IF pc[u] = "waiting" THEN 0 ELSE deadline[u]]
        /\ requalified' = requalified \ {c}
        /\ held' = [held EXCEPT ![t] = 0]
        /\ UNCHANGED <<mono, is_initialized, current_index, start_time, lastAcq,
                       nonPoolVars>>

\* The end of a checkout in responses_create (prompt-debug saving off, its
\* default: no suspension between the outcome and the finally clause).
\* The upstream call returned: record_success, then return_connection.
CallSucceeds(t) ==
    /\ pc[t] = "holding"
    /\ ReturnConnection(t, [connections EXCEPT ![held[t]] = record_success(@)])
    /\ UNCHANGED errors

\* The upstream call raised: record_error, then return_connection.
CallFails(t) ==
    /\ pc[t] = "holding"
    /\ errors < MaxErrors
    /\ errors' = errors + 1
    /\ ReturnConnection(t, [connections EXCEPT ![held[t]] = record_error(@, mono)])

\* The caller was cancelled during the upstream call: return_connection only.
CallCancelled(t) ==
    /\ pc[t] = "holding"
    /\ ReturnConnection(t, connections)
    /\ UNCHANGED errors

\* The caller has seen the TimeoutError of line 110.
Raised(t) ==
    /\ pc[t] = "failed"
    /\ pc' = [pc EXCEPT ![t] = "idle"]
    /\ UNCHANGED <<mono, is_initialized, connections, current_index, start_time,
                   deadline, held, errors, lastAcq, wokenBy, requalified, nonPoolVars>>

\* A second passes.  The event loop runs every task that is ready, and every
\* timer that is due, before it sleeps: no whole second passes over them.
Ready(t) ==
    \/ pc[t] \in {"notified", "failed"}
    \/ pc[t] = "waiting" /\ mono >= deadline[t]

Tick ==
    /\ mono < MaxTime
    /\ \A t \in Callers : ~Ready(t)
    /\ mono' = mono + 1
    /\ UNCHANGED <<is_initialized, connections, current_index, pc, start_time,
                   deadline, held, errors, lastAcq, wokenBy, requalified, nonPoolVars>>

\* A get_connection that reserves the next connection before it waits.
ReservedWhileWaiting(conns) ==
    [conns EXCEPT ![current_index + 1].is_in_use = TRUE]

\* Between the wait of line 114 and the exit of the `async with` nothing
\* touches a connection.
NotReserved(conns) == conns

\* The caller is cancelled while it waits on the condition (line 114):
\* CancelledError leaves the wait, the `async with` and get_connection.
WaitCancelled(t) ==
    /\ pc[t] \in {"waiting", "notified"}
    /\ pc' = [pc EXCEPT ![t] = "cancelled"]
    /\ connections' = NotReserved(connections)
    /\ start_time' = [start_time EXCEPT ![t] = 0]
    /\ deadline' = [deadline EXCEPT ![t] = 0]
    /\ wokenBy' = [wokenBy EXCEPT ![t] = 0]
    /\ UNCHANGED <<mono, is_initialized, current_index, held, errors, lastAcq,
                   requalified, nonPoolVars>>

\* The caller has seen the CancelledError.
Cancelled(t) ==
    /\ pc[t] = "cancelled"
    /\ pc' = [pc EXCEPT ![t] = "idle"]
    /\ UNCHANGED <<mono, is_initialized, connections, current_index, start_time,
                   deadline, held, errors, lastAcq, wokenBy, requalified, nonPoolVars>>

InitPool ==
    /\ mono = 0
    /\ is_initialized = FALSE
    /\ connections = << >>
    /\ current_index = 0
    /\ pc = [t \in Callers |-> "idle"]
    /\ start_time = [t \in Callers |-> 0]
    /\ deadline = [t \in Callers |-> 0]
    /\ held = [t \in Callers |-> 0]
    /\ errors = 0
    /\ lastAcq = 0
    /\ wokenBy = [t \in Callers |-> 0]
    /\ requalified = {}

\* ------------------------------------------- ConnectionPool: initialize and close
\* The pool's life with a factory whose create_client may suspend and may
\* raise (ConnectionFactory is abstract), and with client handles whose close
\* may raise.  initialize() and close() hold the lock of pool_condition across
\* their awaits; every other caller runs between those awaits.  The clock is
\* left out of this part: whether the test of line 109 finds the timeout
\* reached is open at every pass.
lifeFrame == <<mono, pc, start_time, deadline, held, errors, lastAcq, wokenBy,
               requalified, storeVars, deleted, resultVars, requestVars, adapterVars>>

\* An initialize() without the test of line 79.
AlreadyInitializedNever == FALSE

\* The test of line 79, under the lock.
AlreadyInitialized == is_initialized

\* _create_connection, lines 124-127: the client of the n-th call of the
\* factory, made over the transport http.
NewClient(n, http) == [client |-> n, http_client |-> http]

\* PooledConnection(client = ...) for each client of the list.
Pooled(made_list) == [i \in DOMAIN made_list |-> NewConnection]

\* An initialize() that appends to the pool's list as it goes.
AbandonedPartial(list, made_list) == made_list

\* The factory raised inside the comprehension of line 89: the assignment is
\* not reached, the attribute keeps its list and the connections built so far
\* are dropped.
Abandoned(list, made_list) == list

\* A close() that raises what closing a client raises.
OnCloseErrorRaise == "raised"

\* except Exception: logger.warning, lines 138-139 and 143-144.
OnCloseError == "logged"

\* A close() that leaves the list and the flag as they are.
CleanupNothing(pool) == pool

\* self.connections.clear(); self.is_initialized = False, lines 147-148.
Cleanup(pool) ==
    [pool EXCEPT !.connections = << >>, !.clients = << >>, !.is_initialized = FALSE]

NoMark == [http_client |-> 0, client |-> 0]

NotClosing ==
    [at |-> 0, attempted |-> {}, failed |-> {}, http_client |-> 0, http_failed |-> FALSE]

\* Where a caller goes on when its initialize() returns.
AfterInitialize(t) == IF life[t] = "get_init" THEN "scan" ELSE "idle"

\* initialize() is called.
InitializeCalled(t) ==
    /\ life[t] = "idle"
    /\ life' = [life EXCEPT ![t] = "init"]
    /\ UNCHANGED <<is_initialized, connections, current_index, shared_http_client,
                   pool_lock, building, clients, lease, closing, made, faults,
                   closes, closed_mark, since, lifeFrame>>

\* get_connection() is called: the test of line 95, made without the lock.
GetConnectionCalled(t) ==
    /\ life[t] = "idle"
    /\ life' = [life EXCEPT ![t] = IF is_initialized THEN "scan" ELSE "get_init"]
    /\ since' = [since EXCEPT ![t] = closed_mark]
    /\ UNCHANGED <<is_initialized, connections, current_index, shared_http_client,
                   pool_lock, building, clients, lease, closing, made, faults,
                   closes, closed_mark, lifeFrame>>

\* initialize() gets the lock (lines 78-88): it returns if the pool is
\* initialized, else it constructs the transport and starts on the list.
InitializeEnters(t) ==
    /\ life[t] \in {"init", "get_init"}
    /\ pool_lock = 0
    /\ IF AlreadyInitialized
       THEN /\ life' = [life EXCEPT ![t] = AfterInitialize(t)]
            /\ UNCHANGED <<pool_lock, shared_http_client, made, building>>
       ELSE /\ pool_lock' = t
            /\ shared_http_client' = made.http_client + 1
            /\ made' = [made EXCEPT !.http_client = @ + 1]
            /\ building' = << >>
            /\ life' = life
    /\ UNCHANGED <<is_initialized, connections, current_index, clients, lease,
                   closing, faults, closes, closed_mark, since, lifeFrame>>

\* The factory returns a client (line 89); with the last one the list is
\* assigned, the pool is marked initialized and the lock released.
FactoryReturns(t) ==
    /\ pool_lock = t
    /\ life[t] \in {"init", "get_init"}
    /\ Len(building) < PoolSize
    /\ made' = [made EXCEPT !.client = @ + 1]
    /\ LET made_list == Append(building, NewClient(made.client + 1, shared_http_client))
       IN  IF Len(made_list) = PoolSize
           THEN /\ connections' = Pooled(made_list)
                /\ clients' = made_list
                /\ is_initialized' = TRUE
                /\ building' = << >>
                /\ pool_lock' = 0
                /\ life' = [life EXCEPT ![t] = AfterInitialize(t)]
           ELSE /\ building' = made_list
                /\ UNCHANGED <<connections, clients, is_initialized, pool_lock, life>>
    /\ UNCHANGED <<current_index, shared_http_client, lease, closing, faults,
                   closes, closed_mark, since, lifeFrame>>

\* The factory raises: the exception leaves initialize() (and get_connection),
\* the lock is released.
FactoryRaises(t) ==
    /\ pool_lock = t
    /\ life[t] \in {"init", "get_init"}
    /\ Len(building) < PoolSize
    /\ faults.create + faults.close < MaxFaults
    /\ faults' = [faults EXCEPT !.create = @ + 1]
    /\ made' = [made EXCEPT !.client = @ + 1]
    /\ connections' = Abandoned(connections, Pooled(building))
    /\ clients' = Abandoned(clients, building)
    /\ building' = << >>
    /\ pool_lock' = 0
    /\ life' = [life EXCEPT ![t] = "failed"]
    /\ since' = [since EXCEPT ![t] = NoMark]
    /\ UNCHANGED <<is_initialized, current_index, shared_http_client, lease,
                   closing, closes, closed_mark, lifeFrame>>

\* A pass of the loop of get_connection that finds a connection (lines 101-108).
Leases(t) ==
    LET r == Scan(connections, current_index, mono)
    IN  /\ life[t] = "scan"
        /\ pool_lock = 0
        /\ r.found # 0
        /\ current_index' = r.index
        /\ connections' = [connections EXCEPT ![r.found].is_in_use = TRUE]
        /\ lease' = [lease EXCEPT ![t] = clients[r.found]]
        /\ life' = [life EXCEPT ![t] = "holding"]
        /\ UNCHANGED <<is_initialized, shared_http_client, pool_lock, building,
                       clients, closing, made, faults, closes, closed_mark, since,
                       lifeFrame>>

\* A pass that finds none and finds the timeout reached (lines 109-112).  A
\* pass that finds none before the timeout waits and changes nothing.
GivesUp(t) ==
    LET r == Scan(connections, current_index, mono)
    IN  /\ life[t] = "scan"
        /\ pool_lock = 0
        /\ r.found = 0
        /\ life' = [life EXCEPT ![t] = "failed"]
        /\ since' = [since EXCEPT ![t] = NoMark]
        /\ UNCHANGED <<is_initialized, connections, current_index,
                       shared_http_client, pool_lock, building, clients, lease,
                       closing, made, faults, closes, closed_mark, lifeFrame>>

\* The caller has the exception of its call.
Propagated(t) ==
    /\ life[t] = "failed"
    /\ life' = [life EXCEPT ![t] = "idle"]
    /\ UNCHANGED <<is_initialized, connections, current_index, shared_http_client,
                   pool_lock, building, clients, lease, closing, made, faults,
                   closes, closed_mark, since, lifeFrame>>

\* return_connection(conn), lines 118-122: the flag of the object is cleared,
\* whether or not the pool still lists it.
Returns(t) ==
    /\ life[t] = "holding"
    /\ pool_lock = 0
    /\ connections' = [i \in DOMAIN connections |->
                          IF clients[i] = lease[t]
                          THEN [connections[i] EXCEPT !.is_in_use = FALSE]
                          ELSE connections[i]]
    /\ lease' = [lease EXCEPT ![t] = 0]
    /\ life' = [life EXCEPT ![t] = "idle"]
    /\ since' = [since EXCEPT ![t] = NoMark]
    /\ UNCHANGED <<is_initialized, current_index, shared_http_client, pool_lock,
                   building, clients, closing, made, faults, closes, closed_mark,
                   lifeFrame>>

\* close() is called.
CloseCalled(t) ==
    /\ life[t] = "idle"
    /\ closes + Cardinality({u \in Callers : life[u] = "close"}) < MaxCloses
    /\ life' = [life EXCEPT ![t] = "close"]
    /\ UNCHANGED <<is_initialized, connections, current_index, shared_http_client,
                   pool_lock, building, clients, lease, closing, made, faults,
                   closes, closed_mark, since, lifeFrame>>

\* close() gets the lock (line 131).
CloseEnters(t) ==
    /\ life[t] = "close"
    /\ pool_lock = 0
    /\ pool_lock' = t
    /\ closing' = NotClosing
    /\ UNCHANGED <<is_initialized, connections, current_index, shared_http_client,
                   life, building, clients, lease, made, faults, closes,
                   closed_mark, since, lifeFrame>>

\* The next connection's client is closed (lines 132-137).
ClientCloses(t) ==
    /\ pool_lock = t
    /\ life[t] = "close"
    /\ closing.at < Len(connections)
    /\ closing' = [closing EXCEPT !.at = @ + 1,
                                  !.attempted = @ \cup {clients[closing.at + 1].client}]
    /\ UNCHANGED <<is_initialized, connections, current_index, shared_http_client,
                   pool_lock, life, building, clients, lease, made, faults, closes,
                   closed_mark, since, lifeFrame>>

\* Closing the next connection's client raises (lines 138-139).
ClientCloseRaises(t) ==
    /\ pool_lock = t
    /\ life[t] = "close"
    /\ closing.at < Len(connections)
    /\ faults.create + faults.close < MaxFaults
    /\ faults' = [faults EXCEPT !.close = @ + 1]
    /\ closing' = [closing EXCEPT !.at = @ + 1,
                                  !.attempted = @ \cup {clients[closing.at + 1].client},
                                  !.failed = @ \cup {clients[closing.at + 1].client}]
    /\ IF OnCloseError = "logged"
       THEN UNCHANGED <<pool_lock, life>>
       ELSE /\ pool_lock' = 0
            /\ life' = [life EXCEPT ![t] = "failed"]
    /\ UNCHANGED <<is_initialized, connections, current_index, shared_http_client,
                   building, clients, lease, made, closes, closed_mark, since,
                   lifeFrame>>

\* The end of close(), lines 140-149: the transport, if there is one, is
\* closed (ok) or its aclose raises (~ok); the list is cleared and the pool
\* marked uninitialized.
CloseEnds(t, ok) ==
    LET pool == Cleanup([connections |-> connections, clients |-> clients,
                         is_initialized |-> is_initialized])
    IN  /\ pool_lock = t
        /\ life[t] = "close"
        /\ closing.at = Len(connections)
        /\ ok \/ (shared_http_client # 0 /\ faults.create + faults.close < MaxFaults)
        /\ faults' = IF ok THEN faults ELSE [faults EXCEPT !.close = @ + 1]
        /\ closing' = [closing EXCEPT !.http_client = shared_http_client,
                                      !.http_failed = ~ok]
        /\ shared_http_client' = 0
        /\ connections' = pool.connections
        /\ clients' = pool.clients
        /\ is_initialized' = pool.is_initialized
        /\ closes' = closes + 1
        /\ closed_mark' = made
        /\ pool_lock' = 0
        /\ life' = [life EXCEPT ![t] = "idle"]
        /\ UNCHANGED <<current_index, building, lease, made, since, lifeFrame>>

InitLife ==
    /\ shared_http_client = 0
    /\ pool_lock = 0
    /\ life = [t \in Callers |-> "idle"]
    /\ building = << >>
    /\ clients = << >>
    /\ lease = [t \in Callers |-> 0]
    /\ closing = NotClosing
    /\ made = NoMark
    /\ faults = [create |-> 0, close |-> 0]
    /\ closes = 0
    /\ closed_mark = NoMark
    /\ since = [t \in Callers |-> NoMark]

\* ------------------------------------------------- OpenAIClient.responses_create
\* One task makes its calls on one connection.  The steps are those of
\* lines 88-142, one per statement (prompt-debug saving off, its default).

\* request_count + 1 of record_success, line 37.
count_success(counters) == [counters EXCEPT !.request_count = @ + 1]

\* A record_error that counts the error twice.
count_error_twice(counters) == [counters EXCEPT !.error_count = @ + 2]

\* error_count + 1 of record_error, line 41.
count_error(counters) == [counters EXCEPT !.error_count = @ + 1]

\* connection = await self.pool.get_connection(), line 91: the connection
\* is given if it is free and out of quarantine; if not, the call ends with
\* the TimeoutError of get_connection and connection stays None.
RequestStarts ==
    /\ rpc = "idle"
    /\ calls < MaxCalls
    /\ calls' = calls + 1
    /\ response' = "none"
    /\ IF Eligible(connection, mono)
       THEN /\ connection' = [connection EXCEPT !.is_in_use = TRUE]
            /\ rpc' = "upstream"
       ELSE /\ rpc' = "no_connection"
            /\ UNCHANGED connection
    /\ UNCHANGED <<stats, upstream, poolVars, storeVars, deleted, resultVars, lifeVars, adapterVars>>

\* The upstream call of lines 101-114 returns a response.
UpstreamReturns ==
    /\ rpc = "upstream"
    /\ rpc' = "returned"
    /\ upstream' = [upstream EXCEPT !.ok = @ + 1]
    /\ UNCHANGED <<connection, stats, response, calls, poolVars, storeVars, deleted,
                   resultVars, lifeVars, adapterVars>>

\* The upstream call raises an Exception.
UpstreamRaises ==
    /\ rpc = "upstream"
    /\ rpc' = "raised"
    /\ upstream' = [upstream EXCEPT !.failed = @ + 1]
    /\ UNCHANGED <<connection, stats, response, calls, poolVars, storeVars, deleted,
                   resultVars, lifeVars, adapterVars>>

\* The task is cancelled during the upstream call: CancelledError is not an
\* Exception, only the finally clause runs.
UpstreamCancelled ==
    /\ rpc = "upstream"
    /\ rpc' = "finally"
    /\ response' = "CancelledError"
    /\ UNCHANGED <<connection, stats, calls, upstream, poolVars, storeVars, deleted,
                   resultVars, lifeVars, adapterVars>>

\* connection.record_success(); return response, lines 116-117.
RecordsSuccess ==
    /\ rpc = "returned"
    /\ connection' = record_success(connection)
    /\ stats' = count_success(stats)
    /\ response' = "response"
    /\ rpc' = "finally"
    /\ UNCHANGED <<calls, upstream, poolVars, storeVars, deleted, resultVars, lifeVars, adapterVars>>

\* except Exception: connection.record_error(); raise ClientError,
\* lines 119-123, with a connection.
RecordsError ==
    /\ rpc = "raised"
    /\ connection' = record_error(connection, mono)
    /\ stats' = count_error(stats)
    /\ response' = "ClientError"
    /\ rpc' = "finally"
    /\ UNCHANGED <<calls, upstream, poolVars, storeVars, deleted, resultVars, lifeVars, adapterVars>>

\* except Exception with connection None: raise ClientError; the finally
\* clause has nothing to return.
NoConnection ==
    /\ rpc = "no_connection"
    /\ response' = "ClientError"
    /\ rpc' = "idle"
    /\ UNCHANGED <<connection, stats, calls, upstream, poolVars, storeVars, deleted,
                   resultVars, lifeVars, adapterVars>>

\* finally: await self.pool.return_connection(connection), lines 141-142.
Finally ==
    /\ rpc = "finally"
    /\ connection' = [connection EXCEPT !.is_in_use = FALSE]
    /\ rpc' = "idle"
    /\ UNCHANGED <<stats, response, calls, upstream, poolVars, storeVars,
                   deleted, resultVars, lifeVars, adapterVars>>

\* The finally clause with prompt-debug saving off: the connection is
\* returned.
FinallyReturns ==
    /\ ~debug_prompts
    /\ Finally

\* The finally clause with prompt-debug saving on, lines 126-139:
\* await save_prompt_debug(...), which writes a file (utils/prompt_debug.py
\* 214-215) before the connection is returned.
FinallySaves ==
    /\ debug_prompts
    /\ rpc = "finally"
    /\ rpc' = "saving"
    /\ UNCHANGED <<connection, stats, response, calls, upstream, poolVars, storeVars,
                   deleted, resultVars, lifeVars, adapterVars>>

\* save_prompt_debug returns, with the file written or with its Exception
\* logged (prompt_debug.py 224-226); the connection is returned, lines 141-142.
Saved ==
    /\ rpc = "saving"
    /\ connection' = [connection EXCEPT !.is_in_use = FALSE]
    /\ rpc' = "idle"
    /\ UNCHANGED <<stats, response, calls, upstream, poolVars, storeVars,
                   deleted, resultVars, lifeVars, adapterVars>>

\* The task is cancelled while save_prompt_debug writes: CancelledError is
\* not an Exception, it leaves save_prompt_debug and the finally clause, and
\* lines 141-142 are not reached.
SaveCancelled ==
    /\ rpc = "saving"
    /\ response' = "CancelledError"
    /\ rpc' = "idle"
    /\ UNCHANGED <<connection, stats, calls, upstream, poolVars, storeVars,
                   deleted, resultVars, lifeVars, adapterVars>>

InitRequest ==
    /\ connection = NewConnection
    /\ stats = [request_count |-> 0, error_count |-> 0]
    /\ rpc = "idle"
    /\ response = "none"
    /\ calls = 0
    /\ upstream = [ok |-> 0, failed |-> 0]

\* ------------------------------------------------------------ AgentSession
\* An expiry test that counts the age equal to the ttl as expired.
is_expired_inclusive(s, ttl_seconds) == wall - last_accessed[s] >= ttl_seconds

\* is_expired(ttl_seconds) of session s, lines 87-91.
is_expired(s, ttl_seconds) == wall - last_accessed[s] > ttl_seconds

\* A test of line 43 that never finds the agent cached.
CachedNever(s, k) == FALSE

\* The test of line 43: the agent of this kind is cached.
Cached(s, k) == agents[s][k] # 0

\* The body of use_agent(agent_class) on the session client c refers to,
\* lines 39-50: refresh last_accessed, return the cached instance or construct
\* and cache one.
Use(c, k) ==
    /\ ref[c] # 0
    /\ LET s == ref[c]
       IN  /\ last_accessed' = [last_accessed EXCEPT ![s] = wall]
           /\ IF Cached(s, k)
              THEN /\ returned' = agents[s][k]
                   /\ UNCHANGED <<agents, next_agent, built>>
              ELSE /\ next_agent <= MaxAgents
                   /\ agents' = [agents EXCEPT ![s][k] = next_agent]
                   /\ returned' = next_agent
                   /\ next_agent' = next_agent + 1
                   /\ built' = [built EXCEPT ![s][k] = @ \cup {next_agent}]
    /\ UNCHANGED <<wall, sessions, store_lock, expired_checks,
                   ref, next_id, last_lookup, deleted, resultVars, otherVars>>

\* use_agent(agent_class) by client c.
UseAgent(c, k) ==
    /\ Use(c, k)
    /\ UNCHANGED adapterVars

\* A clear() that leaves the dict as it is.
ClearedNothing(results) == results

\* dict.clear(): no key keeps an entry.
Cleared(results) == [key \in DOMAIN results |-> << >>]

\* A removal of one key that empties the whole dict.
PoppedAll(results, agent_key) == Cleared(results)

\* self.agent_results.pop(agent_key, None), line 77.
Popped(results, agent_key) == [results EXCEPT ![agent_key] = << >>]

\* The session object s has been constructed (create_session, line 107); a
\* task that has it can call its methods, in the store's map or not.
Constructed(s) == s < next_id

\* update_last_active(agent_key) on session s, lines 52-57.
UpdateLastActive(s, agent_key) ==
    /\ Constructed(s)
    /\ last_active_agent' = [last_active_agent EXCEPT ![s] = agent_key]
    /\ last_accessed' = [last_accessed EXCEPT ![s] = wall]
    /\ UNCHANGED <<wall, sessions, agents, store_lock, expired_checks, ref,
                   returned, next_id, next_agent, built, last_lookup, deleted,
                   resultVars, otherVars, lookup_age, restVars, mcpVars, serverVars>>

\* clear_conversation() on session s.
ClearConversationOn(s) ==
    /\ Constructed(s)
    /\ agents' = [agents EXCEPT ![s] = [k \in Kinds |-> 0]]
    /\ built' = [built EXCEPT ![s] = [k \in Kinds |-> {}]]
    /\ agent_results' = [agent_results EXCEPT ![s] = Cleared(@)]
    /\ last_stored' = [last_stored EXCEPT ![s] = Cleared(@)]
    /\ UNCHANGED <<wall, sessions, last_accessed, store_lock,
                   expired_checks, ref, returned, next_id, next_agent,
                   last_lookup, deleted, stores, nonStoreVars>>

\* clear_conversation() on the session client c refers to.
ClearConversation(c) ==
    /\ ref[c] # 0
    /\ ClearConversationOn(ref[c])

\* The dict literal of line 62: result and timestamp first, then **metadata,
\* whose keys come last and so win.
Entry(result, metadata, now) ==
    [key \in {"result", "timestamp"} \cup DOMAIN metadata |->
        IF key \in DOMAIN metadata THEN metadata[key]
        ELSE IF key = "result" THEN result ELSE now]

\* store_result(agent_key, result, **metadata) on session s.
StoreResult(s, agent_key, result, metadata) ==
    /\ Constructed(s)
    /\ stores < MaxStores
    /\ stores' = stores + 1
    /\ agent_results' = [agent_results EXCEPT ![s][agent_key] =
                             <<Entry(result, metadata, wall)>>]
    /\ last_stored' = [last_stored EXCEPT ![s][agent_key] =
                           <<[result |-> result, metadata |-> metadata, at |-> wall]>>]
    /\ UNCHANGED <<storeVars, deleted, nonStoreVars>>

\* get_result(agent_key) on session s: self.agent_results.get(agent_key),
\* << >> for None.  It reads and changes nothing.
get_result(s, agent_key) == agent_results[s][agent_key]

\* clear_results(agent_key) on session s, lines 76-77.
ClearResults(s, agent_key) ==
    /\ Constructed(s)
    /\ agent_results' = [agent_results EXCEPT ![s] = Popped(@, agent_key)]
    /\ last_stored' = [last_stored EXCEPT ![s][agent_key] = << >>]
    /\ UNCHANGED <<storeVars, deleted, stores, nonStoreVars>>

\* clear_results() on session s, lines 73-74.
ClearAllResults(s) ==
    /\ Constructed(s)
    /\ agent_results' = [agent_results EXCEPT ![s] = Cleared(@)]
    /\ last_stored' = [last_stored EXCEPT ![s] = Cleared(@)]
    /\ UNCHANGED <<storeVars, deleted, stores, nonStoreVars>>

\* ------------------------------------------------------------ SessionStore
\* A lookup that falls back on some stored session when the id is unknown.
LookupAny(map, session_id) ==
    IF session_id \in DOMAIN map THEN map[session_id]
    ELSE IF DOMAIN map # {} THEN map[CHOOSE k \in DOMAIN map : TRUE] ELSE 0

\* A lookup that does not find a session older than the ttl.
LookupUnexpired(map, session_id) ==
    IF session_id \in DOMAIN map /\ wall - last_accessed[map[session_id]] <= DefaultTtl
    THEN map[session_id] ELSE 0

\* self.sessions.get(session_id): the session stored under the id, 0 for None.
Lookup(map, session_id) ==
    IF session_id \in DOMAIN map THEN map[session_id] ELSE 0

\* self.sessions[session_id] = session
Insert(map, session_id) ==
    [k \in DOMAIN map \cup {session_id} |-> IF k = session_id THEN session_id ELSE map[k]]

\* del self.sessions[sid] for every sid of gone
Remove(map, gone) == [k \in DOMAIN map \ gone |-> map[k]]

\* create_session: a session with a fresh id is built and, once the store's
\* lock is free, inserted under its id.
Create(c) ==
    /\ store_lock = "free"
    /\ next_id <= MaxSessions
    /\ next_id' = next_id + 1
    /\ last_accessed' = [last_accessed EXCEPT ![next_id] = wall]
    /\ sessions' = Insert(sessions, next_id)
    /\ UNCHANGED <<wall, agents, store_lock, expired_checks, ref, returned,
                   next_agent, built, last_lookup, deleted, resultVars, otherVars>>

CreateSession(c) ==
    /\ Create(c)
    /\ UNCHANGED adapterVars

\* A get_session that finds the session and leaves its last_accessed alone.
RefreshSkipped(stamps, session) == stamps

\* session.last_accessed = datetime.now() of get_session, line 128.
RefreshOnAccess(stamps, session) == [stamps EXCEPT ![session] = wall]

\* The body of get_session(session_id), lines 117-131; client c keeps what
\* it returns.
Get(c, session_id) ==
    /\ store_lock = "free"
    /\ LET session == Lookup(sessions, session_id)
       IN  /\ ref' = [ref EXCEPT ![c] = session]
           /\ IF session = 0
              THEN UNCHANGED <<last_accessed, last_lookup>>
              ELSE /\ last_accessed' = RefreshOnAccess(last_accessed, session)
                   /\ last_lookup' = [last_lookup EXCEPT ![session] = wall]
    /\ UNCHANGED <<wall, sessions, agents, store_lock,
                   expired_checks, returned, next_id, next_agent, built,
                   deleted, resultVars, otherVars>>

\* get_session(session_id) by client c.
GetSession(c, session_id) ==
    /\ Get(c, session_id)
    /\ UNCHANGED adapterVars

\* The age of line 127: now - session.last_accessed before the refresh.
old_age(session) == wall - last_accessed[session]

\* get_session(session_id) by a client that looks at the age of what it got.
GetSessionSeen(c, session_id) ==
    /\ Get(c, session_id)
    /\ lookup_age' = IF Lookup(sessions, session_id) # 0
                     THEN <<old_age(Lookup(sessions, session_id))>> ELSE << >>
    /\ UNCHANGED <<last_active_agent, restVars, mcpVars, serverVars>>

\* A membership test that always answers yes.
PresentAlways(map, session_id) == TRUE

\* session_id in self.sessions, line 136.
Present(map, session_id) == session_id \in DOMAIN map

\* What delete_session(session_id) returns, lines 139-140.
delete_result(session_id) == Present(sessions, session_id)

\* What get_session_count returns, line 162.
get_session_count == Cardinality(DOMAIN sessions)

\* The body of delete_session(session_id), lines 135-140.
Delete(session_id) ==
    /\ store_lock = "free"
    /\ sessions' = IF Present(sessions, session_id)
                   THEN Remove(sessions, {session_id}) ELSE sessions
    /\ UNCHANGED <<wall, last_accessed, agents, store_lock,
                   expired_checks, ref, returned, next_id, next_agent, built,
                   last_lookup, resultVars, otherVars>>

\* delete_session(session_id) by a client that drops what it returns.
DeleteSession(c, session_id) ==
    /\ Delete(session_id)
    /\ UNCHANGED <<deleted, adapterVars>>

\* delete_session(session_id) by a client that keeps what it returns.
DeleteSessionKept(c, session_id) ==
    /\ Delete(session_id)
    /\ deleted' = IF delete_result(session_id) THEN "True" ELSE "False"
    /\ UNCHANGED adapterVars

\* cleanup_expired takes the store's lock and starts one is_expired check per
\* session of the map (asyncio.gather), lines 144-148.
CleanupBegin ==
    /\ store_lock = "free"
    /\ store_lock' = "sweeper"
    /\ expired_checks' = [s \in DOMAIN sessions |-> "todo"]
    /\ UNCHANGED <<wall, sessions, last_accessed, agents,
                   ref, returned, next_id, next_agent, built, last_lookup, deleted, resultVars, nonStoreVars>>

\* One of the gathered is_expired checks runs.
CheckExpired(s) ==
    /\ store_lock = "sweeper"
    /\ s \in DOMAIN expired_checks
    /\ expired_checks[s] = "todo"
    /\ expired_checks' = [expired_checks EXCEPT ![s] =
           IF is_expired(sessions[s], DefaultTtl) THEN "expired" ELSE "fresh"]
    /\ UNCHANGED <<wall, sessions, last_accessed, agents, store_lock,
                   ref, returned, next_id, next_agent, built, last_lookup,
                   deleted, resultVars, nonStoreVars>>

\* The ids whose check came back true, line 149.
expired_ids == {s \in DOMAIN expired_checks : expired_checks[s] = "expired"}

\* What cleanup_expired returns, line 157.
cleanup_result == Cardinality(expired_ids)

\* gather is done: the sessions found expired are removed, cleanup_result is
\* returned and the lock released, lines 149-157.
CleanupEnd ==
    /\ store_lock = "sweeper"
    /\ \A s \in DOMAIN expired_checks : expired_checks[s] # "todo"
    /\ sessions' = Remove(sessions, expired_ids)
    /\ expired_checks' = << >>
    /\ store_lock' = "free"
    /\ UNCHANGED <<wall, last_accessed, agents, ref, returned,
                   next_id, next_agent, built, last_lookup, deleted, resultVars, nonStoreVars>>

\* A second passes: not over a task that is ready (the sweep's checks and
\* the callers its lock keeps waiting).
TickWall ==
    /\ wall < MaxWall
    /\ store_lock = "free"
    /\ wall' = wall + 1
    /\ UNCHANGED <<sessions, last_accessed, agents, store_lock,
                   expired_checks, ref, returned, next_id, next_agent, built,
                   last_lookup, deleted, resultVars, nonStoreVars>>

\* The store after construction, with room for the sessions of ids.
InitStoreOver(ids) ==
    /\ wall = 0
    /\ sessions = << >>
    /\ last_accessed = [s \in ids |-> 0]
    /\ agents = [s \in ids |-> [k \in Kinds |-> 0]]
    /\ store_lock = "free"
    /\ expired_checks = << >>
    /\ ref = [c \in Clients |-> 0]
    /\ returned = 0
    /\ next_id = 1
    /\ next_agent = 1
    /\ built = [s \in ids |-> [k \in Kinds |-> {}]]
    /\ last_lookup = [s \in ids |-> 0]
    /\ deleted = "none"
    /\ lookup_age = << >>
    /\ last_active_agent = [s \in ids |-> ""]
    /\ agent_results = [s \in ids |-> [key \in ResultKeys |-> << >>]]
    /\ stores = 0
    /\ last_stored = [s \in ids |-> [key \in ResultKeys |-> << >>]]

InitStore == InitStoreOver(SessionIds)

\* The adapters before any request, with room for the sessions of ids.
InitAdapterOver(ids) ==
    /\ progress_handler = [s \in ids |-> 0]
    /\ agent_handler = [a \in 1..MaxAgents |-> 0]
    /\ req = [c \in Clients |-> "idle"]
    /\ using = [c \in Clients |-> 0]
    /\ delivered = [c \in Clients |-> 0]
    /\ writes = {}
    /\ mcp_map = << >>
    /\ tool = [c \in Clients |-> NoCall]
    /\ created_for = [mcp_sid \in McpIds |-> {}]

InitAdapter == InitAdapterOver(SessionIds)

\* The REST routes before any request, under one of the configurations.
InitAuthWith(configs) ==
    /\ http_config \in configs
    /\ jwks_cached = FALSE
    /\ http_status = 0
    /\ http_last = NoRequest

\* The sweep task started (server.py 58), no session lock taken.
InitSweepOver(ids) ==
    /\ sweep_task = "running"
    /\ session_lock = [s \in ids |-> "free"]

\* No request is being streamed.
InitStream ==
    /\ gen = [c \in Clients |-> "idle"]
    /\ task = [c \in Clients |-> "none"]
    /\ queue = [c \in Clients |-> << >>]
    /\ yielded = [c \in Clients |-> << >>]
    /\ emitted = [c \in Clients |-> 0]

\* No client has made a request.
InitMappingOver(ids) == last_request = [s \in ids |-> 0]

\* No call waits for the store's lock.
InitLocks == pending = [c \in Clients |-> NotWaiting]

\* execute_tool_conversation has not been called.
InitConversation ==
    conv = [pos |-> "idle", max_iterations |-> 0, response_format |-> FALSE,
            iteration |-> 0, made |-> 0, got |-> NoResponse]

\* Prompt-debug saving as one of the settings says.
InitDebugWith(settings) == debug_prompts \in settings

InitServer ==
    /\ InitAuthWith({[auth_enabled |-> TRUE, oauth_configured |-> TRUE]})
    /\ InitDebugWith({FALSE})
    /\ InitSweepOver(SessionIds)
    /\ InitStream
    /\ InitMappingOver(SessionIds)
    /\ InitLocks
    /\ InitConversation

Init == InitPool /\ InitLife /\ InitStore /\ InitRequest /\ InitAdapter /\ InitServer

NextPool ==
    \/ \E t \in Callers : GetConnection(t)
    \/ \E t \in Callers : WaitTimeout(t)
    \/ \E t \in Callers : Rescan(t)
    \/ \E t \in Callers : CallSucceeds(t)
    \/ \E t \in Callers : CallFails(t)
    \/ \E t \in Callers : CallCancelled(t)
    \/ \E t \in Callers : Raised(t)
    \/ Tick

NextStore ==
    \/ \E c \in Clients : CreateSession(c)
    \/ \E c \in Clients, id \in AskedIds : GetSession(c, id)
    \/ \E c \in Clients, id \in AskedIds : DeleteSession(c, id)
    \/ \E c \in Clients, k \in Kinds : UseAgent(c, k)
    \/ \E c \in Clients : ClearConversation(c)
    \/ CleanupBegin
    \/ \E s \in SessionIds : CheckExpired(s)
    \/ CleanupEnd
    \/ TickWall

SpecPool == Init /\ [][NextPool]_vars

SpecStore == Init /\ [][NextStore]_vars

\* The calls made on the store's map, by clients that keep what
\* delete_session returns.
NextStoreMap ==
    \/ \E c \in Clients : CreateSession(c)
    \/ \E c \in Clients, id \in AskedIds : GetSession(c, id)
    \/ \E c \in Clients, id \in AskedIds : DeleteSessionKept(c, id)
    \/ CleanupBegin
    \/ \E s \in SessionIds : CheckExpired(s)
    \/ CleanupEnd
    \/ TickWall

SpecStoreMap == Init /\ [][NextStoreMap]_vars

\* The calls made on the results of a session.
NextResults ==
    \/ \E c \in Clients : CreateSession(c)
    \/ \E s \in SessionIds, key \in ResultKeys, m \in Metadatas :
          StoreResult(s, key, stores + 1, m)
    \/ \E s \in SessionIds, key \in ResultKeys : ClearResults(s, key)
    \/ \E s \in SessionIds : ClearAllResults(s)
    \/ \E s \in SessionIds : ClearConversationOn(s)
    \/ TickWall

SpecResults == Init /\ [][NextResults]_vars

\* The calls of one task on one connection, and the clock.
NextRequest ==
    \/ RequestStarts
    \/ UpstreamReturns
    \/ UpstreamRaises
    \/ UpstreamCancelled
    \/ RecordsSuccess
    \/ RecordsError
    \/ NoConnection
    \/ Finally
    \/ Tick

SpecRequest == Init /\ [][NextRequest]_vars

\* The calls of one task on one connection with prompt-debug saving off or
\* on.
InitPromptDebug ==
    /\ InitPool /\ InitLife /\ InitStore /\ InitRequest /\ InitAdapter
    /\ InitAuthWith({[auth_enabled |-> TRUE, oauth_configured |-> TRUE]})
    /\ InitDebugWith(BOOLEAN)
    /\ InitSweepOver(SessionIds)
    /\ InitStream
    /\ InitMappingOver(SessionIds)
    /\ InitLocks
    /\ InitConversation

NextPromptDebug ==
    \/ RequestStarts
    \/ UpstreamReturns
    \/ UpstreamRaises
    \/ UpstreamCancelled
    \/ RecordsSuccess
    \/ RecordsError
    \/ NoConnection
    \/ FinallyReturns
    \/ FinallySaves
    \/ Saved
    \/ SaveCancelled
    \/ Tick

SpecPromptDebug == InitPromptDebug /\ [][NextPromptDebug]_vars

NextLife ==
    \/ \E t \in Callers : InitializeCalled(t)
    \/ \E t \in Callers : GetConnectionCalled(t)
    \/ \E t \in Callers : InitializeEnters(t)
    \/ \E t \in Callers : FactoryReturns(t)
    \/ \E t \in Callers : FactoryRaises(t)
    \/ \E t \in Callers : Leases(t)
    \/ \E t \in Callers : GivesUp(t)
    \/ \E t \in Callers : Propagated(t)
    \/ \E t \in Callers : Returns(t)
    \/ \E t \in Callers : CloseCalled(t)
    \/ \E t \in Callers : CloseEnters(t)
    \/ \E t \in Callers : ClientCloses(t)
    \/ \E t \in Callers : ClientCloseRaises(t)
    \/ \E t \in Callers, ok \in BOOLEAN : CloseEnds(t, ok)

SpecLife == Init /\ [][NextLife]_vars

\* The pool before any close().
NextInitialize ==
    \/ \E t \in Callers : InitializeCalled(t)
    \/ \E t \in Callers : GetConnectionCalled(t)
    \/ \E t \in Callers : InitializeEnters(t)
    \/ \E t \in Callers : FactoryReturns(t)
    \/ \E t \in Callers : FactoryRaises(t)
    \/ \E t \in Callers : Leases(t)
    \/ \E t \in Callers : Propagated(t)
    \/ \E t \in Callers : Returns(t)

SpecInitialize == Init /\ [][NextInitialize]_vars

\* The pool with callers that may be cancelled while they wait.
NextPoolCancel ==
    \/ NextPool
    \/ \E t \in Callers : WaitCancelled(t)
    \/ \E t \in Callers : Cancelled(t)

SpecPoolCancel == Init /\ [][NextPoolCancel]_vars

\* The store with clients that look at the age of the session they get.
NextLookup ==
    \/ \E c \in Clients : CreateSession(c)
    \/ \E c \in Clients, id \in AskedIds : GetSessionSeen(c, id)
    \/ \E c \in Clients, id \in AskedIds : DeleteSession(c, id)
    \/ \E c \in Clients, k \in Kinds : UseAgent(c, k)
    \/ CleanupBegin
    \/ \E s \in SessionIds : CheckExpired(s)
    \/ CleanupEnd
    \/ TickWall

SpecLookup == Init /\ [][NextLookup]_vars

\* The operations that grant access to a session.
NextAccess ==
    \/ \E c \in Clients : CreateSession(c)
    \/ \E c \in Clients, id \in AskedIds : GetSession(c, id)
    \/ \E c \in Clients, k \in Kinds : UseAgent(c, k)
    \/ \E s \in SessionIds, key \in ResultKeys : UpdateLastActive(s, key)
    \/ \E s \in SessionIds, key \in ResultKeys, m \in Metadatas :
          StoreResult(s, key, stores + 1, m)
    \/ \E s \in SessionIds, key \in ResultKeys : ClearResults(s, key)
    \/ \E s \in SessionIds : ClearAllResults(s)
    \/ \E s \in SessionIds : ClearConversationOn(s)
    \/ TickWall

SpecAccess == Init /\ [][NextAccess]_vars

\* A conversation: agents and results of a session, and its reset.
NextConversation ==
    \/ \E c \in Clients : CreateSession(c)
    \/ \E c \in Clients, id \in AskedIds : GetSession(c, id)
    \/ \E c \in Clients, k \in Kinds : UseAgent(c, k)
    \/ \E s \in SessionIds, key \in ResultKeys, m \in Metadatas :
          StoreResult(s, key, stores + 1, m)
    \/ \E c \in Clients : ClearConversation(c)

SpecConversation == Init /\ [][NextConversation]_vars

\* The event loop runs every ready task and fires every due timer, and time
\* does not stop.  Nothing obliges a caller to call, to release or to record.
FairPool ==
    /\ SF_vars(Tick)
    /\ \A t \in Callers :
          WF_vars(WaitTimeout(t)) /\ WF_vars(Rescan(t)) /\ WF_vars(Raised(t))

SpecPoolLive == SpecPool /\ FairPool

\* ====================================================== claims on the pool

\* The pool as a get_connection call sees it (initialized on first use).
PoolNow == Initialized(connections)
Positions == 1..PoolSize

\* Caller t is given connection c in this step.
Acquires(t, c) == held[t] # c /\ held'[t] = c

\* Caller t finishes a scan in this step without a connection.
ScansInVain(t) ==
    /\ pc'[t] \in {"waiting", "failed"}
    /\ pc[t] # pc'[t] \/ deadline'[t] # deadline[t]

\* C1: no pooled connection is held by two callers at once; a held connection
\* is marked in use, and a connection is given only if it was not in use.
C1_ExclusiveCheckout ==
    \A t \in Callers :
        held[t] # 0 =>
            /\ connections[held[t]].is_in_use
            /\ \A u \in Callers \ {t} : held[u] # held[t]

C1_TwoCallersHold ==
    \E t, u \in Callers : t # u /\ held[t] # 0 /\ held[u] # 0

\* C3: get_connection raises the pool-exhausted error only when the scan just
\* made found no connection free and out of quarantine AND at least
\* request_timeout has passed since the call recorded its start.
C3_RaisesOnlyAfterTimeout ==
    [][\A t \in Callers :
          (pc[t] # "failed" /\ pc'[t] = "failed") =>
              /\ pc[t] \in {"waiting", "notified"}
              /\ mono - start_time[t] >= RequestTimeout
              /\ \A c \in Positions : ~Eligible(connections[c], mono)]_vars

C3_CallerTimedOut ==
    \E t \in Callers : pc[t] = "failed"

\* C4: every get_connection call ends, with a connection or with the error,
\* even if nothing is ever released and nobody is ever notified.
C4_GetConnectionTerminates ==
    \A t \in Callers :
        (pc[t] \in {"waiting", "notified"}) ~> (pc[t] \in {"holding", "failed"})

C4_CallerHasWaited ==
    \E t \in Callers : pc[t] = "waiting" /\ start_time[t] < mono

\* C5: the third consecutive record_error sets unhealthy_until 10 seconds
\* ahead; get_connection never gives a connection before its unhealthy_until,
\* and gives it again once the time has reached it, with no success recorded.
C5_QuarantineRespected ==
    [][/\ \A c \in DOMAIN connections :
            (connections[c].consecutive_errors = ErrorThreshold - 1
             /\ connections'[c].consecutive_errors = ErrorThreshold)
                => connections'[c].unhealthy_until = mono + QuarantineSecs
       /\ \A t \in Callers, c \in Positions :
            Acquires(t, c) =>
                \/ PoolNow[c].unhealthy_until = NoDeadline
                \/ mono >= PoolNow[c].unhealthy_until
       /\ \A t \in Callers :
            ScansInVain(t) =>
                ~\E c \in Positions :
                    /\ ~connections[c].is_in_use
                    /\ connections[c].unhealthy_until # NoDeadline
                    /\ mono >= connections[c].unhealthy_until]_vars

C5_GivenAgainAfterQuarantine ==
    \E t \in Callers :
        /\ held[t] # 0
        /\ held[t] \in requalified
        /\ connections[held[t]].consecutive_errors >= ErrorThreshold
        /\ mono >= connections[held[t]].unhealthy_until

\* C8: when every connection is free and out of quarantine (sequential
\* acquire-then-release, no errors), get_connection gives the connection that
\* follows, cyclically, the one it gave last.
C8_RoundRobin ==
    [][\A t \in Callers, c \in Positions :
          (/\ Acquires(t, c)
           /\ lastAcq # 0
           /\ \A k \in Positions : Eligible(PoolNow[k], mono))
              => c = (lastAcq % PoolSize) + 1]_vars

C8_SecondDiffersFromFirst ==
    \E t \in Callers :
        /\ held[t] = 2
        /\ lastAcq = 2
        /\ errors = 0
        /\ \A u \in Callers \ {t} : pc[u] = "idle"

\* C9: a healthy connection returned while callers are blocked in
\* get_connection goes to one of the callers woken by that return.
C9_WokenCallerGetsReturned ==
    [][\A t \in Callers, c \in Positions :
          (Acquires(t, c) /\ \E w \in Callers : pc[w] = "notified" /\ wokenBy[w] = c)
              => pc[t] = "notified"]_vars

\* ===================================== claims on the connection's bookkeeping

\* C14: record_success sets consecutive_errors to 0, clears unhealthy_until
\* and adds one to request_count; a connection with unhealthy_until set has
\* at least 3 consecutive errors, and consecutive_errors never exceeds
\* error_count.
C14_SuccessClearsHealth ==
    [][/\ RecordsSuccess =>
            /\ connection'.consecutive_errors = 0
            /\ connection'.unhealthy_until = NoDeadline
            /\ stats'.request_count = stats.request_count + 1
            /\ stats'.error_count = stats.error_count
       /\ connection'.unhealthy_until # NoDeadline =>
            connection'.consecutive_errors >= ErrorThreshold
       /\ connection'.consecutive_errors <= stats'.error_count]_vars

C14_SuccessAfterQuarantine ==
    /\ connection.consecutive_errors = 0
    /\ connection.unhealthy_until = NoDeadline
    /\ stats.error_count >= ErrorThreshold
    /\ stats.request_count = 1
    /\ response = "response"

\* C20: an upstream call that raises is followed by exactly one record_error
\* on the connection while it is still checked out, and the caller gets an
\* error, never a response; one that returns is followed by exactly one
\* record_success and no record_error, and the caller gets the response.
C20_OutcomeRecordedOnce ==
    [][/\ stats'.error_count = upstream'.failed - (IF rpc' = "raised" THEN 1 ELSE 0)
       /\ stats'.request_count = upstream'.ok - (IF rpc' = "returned" THEN 1 ELSE 0)
       /\ RecordsError =>
            /\ connection.is_in_use /\ connection'.is_in_use
            /\ response' = "ClientError"
            /\ stats'.request_count = stats.request_count
       /\ RecordsSuccess =>
            /\ connection.is_in_use /\ connection'.is_in_use
            /\ response' = "response"
            /\ stats'.error_count = stats.error_count
       /\ (rpc = "raised" /\ rpc' # "raised") => RecordsError
       /\ (rpc = "returned" /\ rpc' # "returned") => RecordsSuccess
       /\ Finally => response' = response /\ response # "none"]_vars

C20_ErrorRecordedAndRaised ==
    /\ rpc = "idle"
    /\ response = "ClientError"
    /\ ~connection.is_in_use
    /\ stats.error_count = 1
    /\ upstream.failed = 1
    /\ stats.request_count = 1


\* ============================================= claims on the session store

\* The sessions a step takes out of the map.
RemovedNow == DOMAIN sessions \ DOMAIN sessions'

\* C2: between two clear_conversation calls a session builds at most one agent
\* of a kind, and every use_agent call of that kind returns that one instance.
C2_OneInstancePerKind ==
    [][/\ \A s \in SessionIds, k \in Kinds :
            /\ Cardinality(built'[s][k]) <= 1
            /\ agents'[s][k] # 0 => built'[s][k] = {agents'[s][k]}
       /\ \A c \in Clients, k \in Kinds :
            UseAgent(c, k) =>
                /\ returned' = agents'[ref[c]][k]
                /\ built'[ref[c]][k] = {returned'}
                /\ agents[ref[c]][k] # 0 => returned' = agents[ref[c]][k]]_vars

C2_SharedSessionOneAgent ==
    \E c, d \in Clients, k \in Kinds :
        /\ c # d
        /\ ref[c] # 0
        /\ ref[c] = ref[d]
        /\ returned # 0
        /\ built[ref[c]][k] = {returned}
        /\ last_accessed[ref[c]] > last_lookup[ref[c]]
        /\ next_agent = 2

\* C6: cleanup_expired removes exactly the sessions that are expired when it
\* removes them and returns their number, whatever runs between its checks.
C6_SweepRemovesExactlyExpired ==
    [][CleanupEnd =>
          /\ \A s \in DOMAIN sessions :
                s \in RemovedNow <=> is_expired(s, DefaultTtl)
          /\ cleanup_result = Cardinality(RemovedNow)]_vars

\* C7: a get_session that finds the session sets its last_accessed to the
\* current time, and cleanup_expired removes no session that get_session found
\* within the last ttl seconds, whatever the session's age.
C7_LookedUpSessionSurvives ==
    [][/\ \A c \in Clients, id \in AskedIds :
            (GetSession(c, id) /\ id \in DOMAIN sessions) =>
                last_accessed'[id] = wall
       /\ CleanupEnd =>
            \A s \in RemovedNow : wall - last_lookup[s] > DefaultTtl]_vars

C7_SessionKeptBySweep ==
    \E s \in DOMAIN sessions :
        /\ store_lock = "sweeper"
        /\ expired_checks[s] = "fresh"
        /\ wall > DefaultTtl
        /\ last_lookup[s] > 0
        /\ last_accessed[s] = last_lookup[s]

C13_ExpiredStrictlyAfterTtl ==
    \A s \in DOMAIN sessions, ttl \in 0..MaxWall :
        LET age == wall - last_accessed[sessions[s]]
        IN  /\ is_expired(sessions[s], ttl) <=> age > ttl
            /\ age = ttl => ~is_expired(sessions[s], ttl)
            /\ age = ttl + 1 => is_expired(sessions[s], ttl)
            /\ age = ttl - 1 => ~is_expired(sessions[s], ttl)

C13_CheckedAtExactlyTtl ==
    \E s \in DOMAIN expired_checks :
        /\ wall - last_accessed[sessions[s]] = DefaultTtl
        /\ expired_checks[s] = "fresh"

\* C12: get_result(K) returns the entry the most recent store_result(K) wrote:
\* its result, its metadata and a timestamp (the time of the store unless the
\* metadata names one), unless clear_results(K), clear_results() or
\* clear_conversation() came after that store, and then it returns None; so
\* clear_results(K) takes nothing from the other keys.
C12_GetReturnsLastStored ==
    \A s \in SessionIds, key \in ResultKeys :
        LET w == last_stored[s][key]
            e == get_result(s, key)
        IN  /\ w = << >> <=> e = << >>
            /\ w # << >> =>
                /\ DOMAIN e[1] = {"result", "timestamp"} \cup DOMAIN w[1].metadata
                /\ e[1]["result"] = w[1].result
                /\ \A name \in DOMAIN w[1].metadata :
                       e[1][name] = w[1].metadata[name]
                /\ "timestamp" \notin DOMAIN w[1].metadata =>
                       e[1]["timestamp"] = w[1].at

C12_OverwrittenAndCleared ==
    \E s \in SessionIds, key \in ResultKeys :
        /\ stores = 2
        /\ get_result(s, key) # << >>
        /\ get_result(s, key)[1]["result"] = 2
        /\ get_result(s, key)[1]["timestamp"] = 1
        /\ \A other \in ResultKeys \ {key} : get_result(s, other) = << >>

\* ------------------------------------------- claims on initialize and close
\* The clients the pool lists.
Listed == {clients[i].client : i \in DOMAIN clients}

\* The factory raised in this step.
FactoryFailed == faults'.create = faults.create + 1

\* An initialize() completed the pool in this step.
Completed == ~is_initialized /\ is_initialized'

\* C15: initialize() is idempotent.  However many initialize() and
\* get_connection() calls are made on an uninitialized pool, one after the
\* other or at once, and as long as the factory has not failed and the pool
\* has not been closed, the transport is constructed once and the factory is
\* asked for exactly pool_size connections in all; an initialized pool lists
\* exactly pool_size connections and its list is never replaced or resized.
C15_InitializeIdempotent ==
    [][/\ is_initialized' =>
            /\ Len(connections') = PoolSize
            /\ Len(clients') = PoolSize
       /\ (is_initialized /\ is_initialized') => clients' = clients
       /\ (faults'.create = 0 /\ closes' = 0) =>
            /\ made'.http_client <= 1
            /\ made'.client <= PoolSize
            /\ is_initialized' => (made'.http_client = 1 /\ made'.client = PoolSize)
      ]_vars

\* A caller is inside initialize() on a pool that another call has initialized
\* and that has handed out a connection.
C15_SecondCallerFindsPoolInitialized ==
    /\ is_initialized
    /\ faults.create = 0
    /\ made.client = PoolSize
    /\ \E t \in Callers : life[t] \in {"init", "get_init"}
    /\ \E t \in Callers : life[t] = "holding"

\* C16: when the factory fails on any of the pool_size connections, the
\* failure reaches the caller of initialize() (or get_connection()), the pool
\* is left uninitialized with an empty list, the factory is not asked again by
\* that call, and a later call that completes the pool has built all of its
\* pool_size connections itself, over its own transport.
C16_FailedInitializeLeavesNothing ==
    [][/\ FactoryFailed =>
            /\ ~is_initialized'
            /\ connections' = << >>
            /\ clients' = << >>
            /\ pool_lock' = 0
            /\ made'.client = made.client + 1
            /\ \E t \in Callers : /\ life[t] \in {"init", "get_init"}
                                  /\ pool_lock = t
                                  /\ life'[t] = "failed"
       /\ ~is_initialized' => connections' = << >>
       /\ Completed =>
            /\ Len(clients') = PoolSize
            /\ \A i \in 1..PoolSize :
                 /\ clients'[i].client = made'.client - PoolSize + i
                 /\ clients'[i].http_client = shared_http_client'
                 /\ clients'[i].http_client = made'.http_client
      ]_vars

\* The factory failed after it had built a connection, its caller has the
\* exception, and a later call has built the whole pool.
C16_PoolBuiltAfterFailure ==
    /\ faults.create = 1
    /\ made.client > PoolSize + 1
    /\ is_initialized
    /\ \E t \in Callers : life[t] = "failed"

\* C17: once a close() has completed the pool is never initialized again and
\* never hands out a connection.
C17_ClosedIsTerminal ==
    [][closes > 0 =>
          /\ ~is_initialized'
          /\ \A t \in Callers : lease'[t] # lease[t] => lease'[t] = 0
      ]_vars

\* C18: a get_connection() called after a close() returns no connection, and
\* uses no transport, that existed when that close() completed; a pool that
\* is initialized after a close() lists pool_size connections, all of them and
\* their transport constructed after the close().
C18_NothingStaleAfterClose ==
    /\ \A t \in Callers :
          life[t] = "holding" =>
              /\ lease[t].client > since[t].client
              /\ lease[t].http_client > since[t].http_client
    /\ (closes > 0 /\ is_initialized) =>
          /\ Len(clients) = PoolSize
          /\ shared_http_client > closed_mark.http_client
          /\ \A i \in DOMAIN clients :
                /\ clients[i].client > closed_mark.client
                /\ clients[i].http_client = shared_http_client

\* A caller holds a connection it asked for after the close() of an
\* initialized pool.
C18_LeaseAfterClose ==
    \E t \in Callers :
        /\ life[t] = "holding"
        /\ since[t].client > 0
        /\ closes > 0

\* C19: close() is best effort.  When closing a client raises, close() does
\* not raise; when close() ends, it has tried every connection of the list and
\* the transport, the list is empty, there is no transport and the pool is
\* marked uninitialized.
C19_CloseBestEffort ==
    [][/\ faults'.close > faults.close =>
            \A t \in Callers : life'[t] = "failed" => life[t] = "failed"
       /\ \A t \in Callers :
            (life[t] = "close" /\ life'[t] # "close") =>
                /\ life'[t] = "idle"
                /\ closes' = closes + 1
                /\ closing'.attempted = Listed
                /\ closing'.http_client = shared_http_client
                /\ connections' = << >>
                /\ clients' = << >>
                /\ shared_http_client' = 0
                /\ ~is_initialized'
      ]_vars

\* A close() has ended in which closing a client raised and clients after it,
\* and the transport, were closed.
C19_ClosedPastFailure ==
    /\ closes > 0
    /\ closing.http_client # 0
    /\ Cardinality(closing.attempted) = PoolSize
    /\ \E c \in closing.failed : \E d \in closing.attempted : d > c
    /\ connections = << >>

\* ------------------------------------------------------------------------
\* The REST adapter: stream_agent_operation (api/http/rest.py, 103-140).
\* A request carries its own progress handler (RESTProgressHandler(queue), one
\* per request: request c's handler is c) and a session id, 0 if it has none.
\* With the store's lock and the session's lock free, nothing between the
\* first lookup and the return of use_agent suspends, so the whole of it is
\* one step.

SessionLock == {"session"}
StoreLock == {"store"}
NoLock == {}
Write(field, under) == [field |-> field, under |-> under]

\* Lines 111-135. An unknown or missing session id: create_session
\* (progress_handler) constructs the session around the handler. A known one:
\* the handler is assigned to session.progress_handler (line 120) with no
\* lock held. Then get_session (line 129: last_accessed written under the
\* store's lock, core.py 126-128) and use_agent (core.py 39-50, under the
\* session's lock), which passes self.progress_handler to a constructor only
\* when it constructs.
Starts(c, session_id, k) ==
    /\ req[c] = "idle"
    /\ store_lock = "free"
    /\ LET found == session_id # 0 /\ Lookup(sessions, session_id) # 0
           session == IF found THEN session_id ELSE next_id
           cached == found /\ Cached(session, k)
       IN  /\ found \/ next_id <= MaxSessions
           /\ cached \/ next_agent <= MaxAgents
           /\ sessions' = IF found THEN sessions ELSE Insert(sessions, next_id)
           /\ next_id' = IF found THEN next_id ELSE next_id + 1
           /\ progress_handler' = [progress_handler EXCEPT ![session] = c]
           /\ last_accessed' = [last_accessed EXCEPT ![session] = wall]
           /\ last_lookup' = [last_lookup EXCEPT ![session] = wall]
           /\ ref' = [ref EXCEPT ![c] = session]
           /\ IF cached
              THEN /\ returned' = agents[session][k]
                   /\ UNCHANGED <<agents, next_agent, built, agent_handler>>
              ELSE /\ agents' = [agents EXCEPT ![session][k] = next_agent]
                   /\ returned' = next_agent
                   /\ next_agent' = next_agent + 1
                   /\ built' = [built EXCEPT ![session][k] = @ \cup {next_agent}]
                   /\ agent_handler' = [agent_handler EXCEPT ![next_agent] = c]
           /\ using' = [using EXCEPT ![c] = returned']
           /\ writes' = writes
                 \cup {Write("last_accessed", StoreLock),
                       Write("last_accessed", SessionLock)}
                 \cup (IF found THEN {Write("progress_handler", NoLock)} ELSE {})
                 \cup (IF cached THEN {} ELSE {Write("agents", SessionLock)})
    /\ req' = [req EXCEPT ![c] = "running"]
    /\ delivered' = [delivered EXCEPT ![c] = 0]
    /\ UNCHANGED <<wall, store_lock, expired_checks, deleted, resultVars,
                   otherVars, lookup_age, last_active_agent, mcpVars>>

\* A streamed agent operation begins.
RestStarts(c, session_id, k) ==
    /\ Starts(c, session_id, k)
    /\ UNCHANGED serverVars

\* agent.process(query) emits progress: self.progress_handler.emit(...)
\* (agents/base_agent.py 113), on the handler the agent was constructed with
\* (base_agent.py 36).
RestEmits(c) ==
    /\ req[c] = "running"
    /\ delivered' = [delivered EXCEPT ![c] = agent_handler[using[c]]]
    /\ UNCHANGED <<storeVars, deleted, resultVars, otherVars, lookup_age,
                   last_active_agent, progress_handler, agent_handler, req,
                   using, writes, mcpVars, serverVars>>

\* The task is done and the stream ends.
RestEnds(c) ==
    /\ req[c] = "running"
    /\ req' = [req EXCEPT ![c] = "idle"]
    /\ UNCHANGED <<storeVars, deleted, resultVars, otherVars, lookup_age,
                   last_active_agent, progress_handler, agent_handler,
                   using, delivered, writes, mcpVars, serverVars>>

NextRest ==
    \/ \E c \in Clients, session_id \in SessionIds \cup {0}, k \in Kinds :
            RestStarts(c, session_id, k)
    \/ \E c \in Clients : RestEmits(c)
    \/ \E c \in Clients : RestEnds(c)
    \/ TickWall

SpecRest == Init /\ [][NextRest]_vars

\* ------------------------------------------------------------------------
\* The MCP adapter: tool_func (api/http/mcp.py, 104-146), on the store the
\* REST routes and the server's sweep use (server.py 54, 163-169).
\* A tool call awaits the store at line 119 (get_session of the mapped id),
\* at lines 124 and 131 (create_session) and at line 136 (get_session).  Such
\* an await suspends only if the store's lock is held or another task waits
\* for it (asyncio.Lock serves its waiters first); otherwise the call runs
\* on to its next await in the same step.

MaxMcpSessions == 3
McpSessionIds == 1..MaxMcpSessions

Awaits == {"await_lookup", "await_create", "await_get"}

\* The tool calls suspended on the store's lock.
Parked == {c \in Clients : tool[c].pos \in Awaits}

\* What a tool call reads and writes, with the call's own variables.
Here(c) ==
    [sessions |-> sessions, next_id |-> next_id, last_accessed |-> last_accessed,
     last_lookup |-> last_lookup, progress_handler |-> progress_handler,
     mcp_map |-> mcp_map, created_for |-> created_for, call |-> tool[c],
     over |-> FALSE]

\* Lines 119-128 past the await: the mapped session is looked up (and
\* refreshed, core.py 126-128); if it is there the call's handler is bound
\* to it, if not the mapping is deleted (KeyError if another call deleted it
\* already) and a session is to be created.
LookedUp(st, c) ==
    LET agent_sid == st.call.agent_sid
    IN  IF Lookup(st.sessions, agent_sid) # 0
        THEN [st EXCEPT !.last_accessed[agent_sid] = wall,
                        !.last_lookup[agent_sid] = wall,
                        !.progress_handler[agent_sid] = c,
                        !.call.pos = "await_get"]
        ELSE IF st.call.mcp_sid \in DOMAIN st.mcp_map
             THEN [st EXCEPT !.mcp_map = [k \in DOMAIN st.mcp_map \ {st.call.mcp_sid} |->
                                             st.mcp_map[k]],
                             !.call.pos = "await_create"]
             ELSE [st EXCEPT !.call.pos = "failed"]

\* _mcp_to_agent_session[mcp_sid] = agent_sid, lines 125 and 132.
Mapped(map, mcp_sid, agent_sid) ==
    [k \in DOMAIN map \cup {mcp_sid} |-> IF k = mcp_sid THEN agent_sid ELSE map[k]]

\* Lines 124-125 and 131-132 past the await: create_session(progress_handler)
\* stores a new session and the mapping is set to it.
Created(st, c) ==
    LET agent_sid == st.next_id
        mcp_sid == st.call.mcp_sid
    IN  IF agent_sid > MaxMcpSessions
        THEN [st EXCEPT !.over = TRUE, !.call.pos = "failed"]
        ELSE [st EXCEPT !.sessions = Insert(st.sessions, agent_sid),
                        !.next_id = agent_sid + 1,
                        !.last_accessed[agent_sid] = wall,
                        !.progress_handler[agent_sid] = c,
                        !.mcp_map = Mapped(st.mcp_map, mcp_sid, agent_sid),
                        !.created_for[mcp_sid] = @ \cup {agent_sid},
                        !.call.agent_sid = agent_sid,
                        !.call.pos = "await_get"]

\* Line 136 past the await, and the test of line 137.
Got(st, c) ==
    LET agent_sid == st.call.agent_sid
    IN  IF Lookup(st.sessions, agent_sid) # 0
        THEN [st EXCEPT !.last_accessed[agent_sid] = wall,
                        !.last_lookup[agent_sid] = wall,
                        !.call.pos = "serving"]
        ELSE [st EXCEPT !.call.pos = "failed"]

\* The call's next await of the store, carried out.
PastAwait(st, c) ==
    CASE st.call.pos = "await_lookup" -> LookedUp(st, c)
      [] st.call.pos = "await_create" -> Created(st, c)
      [] st.call.pos = "await_get" -> Got(st, c)

\* The call runs on through awaits that do not suspend.
RECURSIVE RunOn(_, _)
RunOn(st, c) == IF st.call.pos \in Awaits THEN RunOn(PastAwait(st, c), c) ELSE st

\* The variables after a step of tool call c that ends in st.
McpStep(st, c) ==
    /\ ~st.over
    /\ sessions' = st.sessions
    /\ next_id' = st.next_id
    /\ last_accessed' = st.last_accessed
    /\ last_lookup' = st.last_lookup
    /\ progress_handler' = st.progress_handler
    /\ mcp_map' = st.mcp_map
    /\ created_for' = st.created_for
    /\ tool' = [tool EXCEPT ![c] = st.call]
    /\ UNCHANGED <<wall, agents, store_lock, expired_checks, ref, returned,
                   next_agent, built, deleted, resultVars, otherVars, lookup_age,
                   last_active_agent, agent_handler, req, using, delivered, writes,
                   serverVars>>

\* A tool call with MCP session id mcp_sid arrives, lines 112-118: the test
\* of the mapping, and what follows up to the first await that suspends.
McpCalled(c, mcp_sid) ==
    /\ tool[c].pos = "idle"
    /\ LET mapped == mcp_sid \in DOMAIN mcp_map
           start == [Here(c) EXCEPT !.call =
                        [pos |-> IF mapped THEN "await_lookup" ELSE "await_create",
                         mcp_sid |-> mcp_sid,
                         agent_sid |-> IF mapped THEN mcp_map[mcp_sid] ELSE 0]]
       IN  McpStep(IF store_lock = "free" /\ Parked = {}
                   THEN RunOn(start, c) ELSE start, c)

\* The store's lock is free and a suspended tool call goes on, up to its next
\* await that suspends.
McpResumes(c) ==
    /\ tool[c].pos \in Awaits
    /\ store_lock = "free"
    /\ LET st == PastAwait(Here(c), c)
       IN  McpStep(IF Parked \ {c} = {} THEN RunOn(st, c) ELSE st, c)

\* The tool call returns its result or its error, lines 137-146.
McpReturns(c) ==
    /\ tool[c].pos \in {"serving", "failed"}
    /\ tool' = [tool EXCEPT ![c] = NoCall]
    /\ UNCHANGED <<storeVars, deleted, resultVars, otherVars, lookup_age,
                   last_active_agent, restVars, mcp_map, created_for, serverVars>>

\* cleanup_expired with a session in the store: gather suspends with the
\* store's lock held.  (With no session it awaits nothing that suspends.)
SweepBegins ==
    /\ sessions # << >>
    /\ CleanupBegin

InitMcp ==
    /\ InitPool /\ InitLife /\ InitRequest
    /\ InitStoreOver(McpSessionIds)
    /\ InitAdapterOver(McpSessionIds)
    /\ InitServer

NextMcp ==
    \/ \E c \in Clients, mcp_sid \in McpIds : McpCalled(c, mcp_sid)
    \/ \E c \in Clients : McpResumes(c)
    \/ \E c \in Clients : McpReturns(c)
    \/ \E c \in Clients : CreateSession(c)
    \/ \E c \in Clients, session_id \in McpSessionIds : DeleteSession(c, session_id)
    \/ SweepBegins
    \/ \E s \in McpSessionIds : CheckExpired(s)
    \/ CleanupEnd

SpecMcp == InitMcp /\ [][NextMcp]_vars

\* ------------------------------------------------------------------------
\* The REST routes and their authentication (api/http/rest.py 27-98,
\* api/http/auth.py).  Every route but /health and /info depends on
\* get_current_user, which FastAPI resolves before it calls the route.

Protected == {"create_session", "get_session_info", "delete_session", "endpoint"}
Public == {"health", "info"}

\* What a request carries in its Authorization header: nothing, or a bearer
\* token: one the issuer signed for this client with an email claim, one
\* with another signature, one that is expired, one without the email claim.
NoCredentials == "none"
Tokens == {"good", "forged", "expired", "no_email"}

\* What the issuer's discovery and key documents do when they are fetched:
\* they arrive, the fetch fails (httpx.HTTPError), or what arrives is not
\* usable.
Providers == {"ok", "unreachable", "broken"}

HttpConfigs == [auth_enabled : BOOLEAN, oauth_configured : BOOLEAN]

\* A decode that takes every signature.
DecodesAnything(token) == TRUE

\* jwt.decode(token, key = the issuer's keys), auth.py 88-95.
Decodes(token) == token # "forged"

\* claims.validate(), auth.py 98.
Validates(token) == token # "expired"

\* claims.get("email"), auth.py 101.
Email(token) == IF token = "no_email" THEN "" ELSE "user@example.com"

Answer(code, user) == [status |-> code, user |-> user]

\* verify_oauth_token, auth.py 80-118: the keys come from the cache or are
\* fetched (a failed fetch is an HTTPException 500, re-raised as it is; any
\* other exception is turned into 500); a JoseError and a missing email are
\* 401.
verify_oauth_token(token, cached, provider) ==
    IF ~cached /\ provider # "ok" THEN Answer(500, "")
    ELSE IF ~Decodes(token) \/ ~Validates(token) THEN Answer(401, "")
    ELSE IF Email(token) = "" THEN Answer(401, "")
    ELSE Answer(200, Email(token))

\* get_current_user, auth.py 120-146.
get_current_user(config, credentials, cached, provider) ==
    IF ~config.auth_enabled THEN Answer(200, "anonymous")
    ELSE IF credentials = NoCredentials THEN Answer(401, "")
    ELSE IF ~config.oauth_configured THEN Answer(500, "")
    ELSE verify_oauth_token(credentials, cached, provider)

\* _get_jwks, auth.py 57-77: the keys are fetched when the token is verified
\* and the cache has none, and cached when they arrive.
Fetched(config, credentials, cached, provider) ==
    /\ config.auth_enabled /\ credentials # NoCredentials /\ config.oauth_configured
    /\ ~cached /\ provider = "ok"

\* The adapter's variables no route changes.
routeFrame == <<lookup_age, last_active_agent, mcpVars, debugVars, sweepVars,
                streamVars, mappingVars, lockVars, convVars>>

\* The route is called with a user: what it does and the status it answers.
Route(c, endpoint, session_id, k) ==
    CASE endpoint = "create_session" ->
            /\ Create(c)
            /\ http_status' = 201
            /\ UNCHANGED <<restVars, routeFrame>>
      [] endpoint = "get_session_info" ->
            /\ Get(c, session_id)
            /\ http_status' = IF Lookup(sessions, session_id) = 0 THEN 404 ELSE 200
            /\ UNCHANGED <<restVars, routeFrame>>
      [] endpoint = "delete_session" ->
            /\ Delete(session_id)
            /\ http_status' = 204
            /\ UNCHANGED <<deleted, restVars, routeFrame>>
      [] endpoint = "endpoint" ->
            /\ Starts(c, session_id, k)
            /\ http_status' = 200
            /\ UNCHANGED <<debugVars, sweepVars, streamVars, mappingVars, lockVars,
                           convVars>>

\* What the request's Authorization header is to the server: no token, a
\* token it has no means to verify (OAuth not configured, the issuer's keys
\* neither cached nor obtained), a token that is not a good one, or a token
\* it has verified.
Bearer(credentials, provider) ==
    IF credentials = NoCredentials THEN "missing"
    ELSE IF ~http_config.oauth_configured \/ (~jwks_cached /\ provider # "ok")
         THEN "unverifiable"
    ELSE IF credentials # "good" THEN "refuted"
    ELSE "verified"

\* One request to a route of the router, rest.py 30-96.
Request(c, endpoint, credentials, provider, session_id, k) ==
    LET user == get_current_user(http_config, credentials, jwks_cached, provider)
    IN  /\ http_last = NoRequest
        /\ http_last' = [endpoint |-> endpoint,
                         bearer |-> Bearer(credentials, provider),
                         session_id |-> session_id]
        /\ UNCHANGED http_config
        /\ IF endpoint \in Public
           THEN /\ http_status' = 200
                /\ UNCHANGED <<jwks_cached, storeVars, deleted, resultVars, otherVars,
                               restVars, routeFrame>>
           ELSE /\ jwks_cached' = (jwks_cached \/
                                   Fetched(http_config, credentials, jwks_cached, provider))
                /\ IF user.status = 200
                   THEN Route(c, endpoint, session_id, k)
                   ELSE /\ http_status' = user.status
                        /\ UNCHANGED <<storeVars, deleted, resultVars, otherVars,
                                       restVars, routeFrame>>

\* The response has been sent.
Responded ==
    /\ http_last # NoRequest
    /\ http_last' = NoRequest
    /\ http_status' = 0
    /\ UNCHANGED <<http_config, jwks_cached, storeVars, deleted,
                   resultVars, otherVars, restVars, routeFrame>>

\* The cached keys pass JWKS_CACHE_TTL (auth.py 63-64).
JwksExpires ==
    /\ jwks_cached
    /\ jwks_cached' = FALSE
    /\ UNCHANGED <<http_config, http_status, http_last, storeVars, deleted,
                   resultVars, otherVars, restVars, routeFrame>>

\* The one client whose requests the routes answer here, one after the other.
TestClient == CHOOSE c \in Clients : TRUE

\* Two clients whose requests or calls run side by side.
ClientPair == {TestClient, CHOOSE c \in Clients : c # TestClient}

\* The REST routes under one configuration, with requests that carry any of
\* the credentials, and the streams the agent routes start.
InitAuth ==
    /\ InitPool /\ InitLife /\ InitStore /\ InitRequest /\ InitAdapter
    /\ InitAuthWith(HttpConfigs)
    /\ InitDebugWith({FALSE})
    /\ InitSweepOver(SessionIds)
    /\ InitStream
    /\ InitMappingOver(SessionIds)
    /\ InitLocks
    /\ InitConversation

NextAuth ==
    \/ \E endpoint \in Protected \cup Public,
          credentials \in {NoCredentials} \cup Tokens, provider \in Providers,
          session_id \in SessionIds, k \in Kinds :
            Request(TestClient, endpoint, credentials, provider, session_id, k)
    \/ Responded
    \/ JwksExpires
    \/ RestEnds(TestClient)

SpecAuth == InitAuth /\ [][NextAuth]_vars

\* ------------------------------------------------------------------------
\* The sweep task: periodic_session_cleanup (api/http/server.py 50-58), which
\* sleeps and calls cleanup_expired in turn, and its cancellation at shutdown
\* (server.py 64-68).  The task can be cancelled where it is suspended: in
\* asyncio.sleep, or in the asyncio.gather of cleanup_expired, which then
\* cancels the is_expired checks that have not run.

sweepFrame == <<deleted, resultVars, otherVars, lookup_age, last_active_agent,
                restVars, mcpVars, authVars, debugVars, streamVars, mappingVars,
                lockVars, convVars>>

\* A lock taken with acquire() and released by a statement the exception
\* skips.
KeptOnExit(lock) == lock

\* `async with lock`: the lock is released when the block is left, by its
\* end or by an exception (core.py 89, 144).
ReleasedOnExit(lock) == "free"

\* The sleep is over and cleanup_expired takes the store's lock and gathers
\* the checks (a store without sessions is swept without suspending, with
\* no effect).
SweepTaskBegins ==
    /\ sweep_task = "running"
    /\ sessions # << >>
    /\ CleanupBegin

\* One gathered is_expired check runs, core.py 87-91: it takes the session's
\* lock, compares and leaves the block.
IsExpiredTask(s) ==
    /\ store_lock = "sweeper"
    /\ s \in DOMAIN expired_checks
    /\ expired_checks[s] = "todo"
    /\ session_lock[sessions[s]] = "free"
    /\ expired_checks' = [expired_checks EXCEPT ![s] =
           IF is_expired(sessions[s], DefaultTtl) THEN "expired" ELSE "fresh"]
    /\ session_lock' = [session_lock EXCEPT ![sessions[s]] =
                           ReleasedOnExit("is_expired")]
    /\ UNCHANGED <<wall, sessions, last_accessed, agents, store_lock, ref, returned,
                   next_id, next_agent, built, last_lookup, sweep_task, sweepFrame>>

\* The task is cancelled in asyncio.sleep.
CancelledAsleep ==
    /\ sweep_task = "running"
    /\ store_lock = "free"
    /\ sweep_task' = "cancelled asleep"
    /\ UNCHANGED <<storeVars, session_lock, sweepFrame>>

\* The task is cancelled in the gather of cleanup_expired: CancelledError
\* leaves the block of line 144 before line 149, nothing is removed.
CancelledGathering ==
    /\ sweep_task = "running"
    /\ store_lock = "sweeper"
    /\ \E s \in DOMAIN expired_checks : expired_checks[s] = "todo"
    /\ store_lock' = ReleasedOnExit(store_lock)
    /\ expired_checks' = << >>
    /\ sweep_task' = "cancelled gathering"
    /\ UNCHANGED <<wall, sessions, last_accessed, agents, ref, returned, next_id,
                   next_agent, built, last_lookup, session_lock, sweepFrame>>

NextSweepTask ==
    \/ \E c \in Clients : CreateSession(c)
    \/ \E c \in Clients, id \in SessionIds : GetSession(c, id)
    \/ SweepTaskBegins
    \/ \E s \in SessionIds : IsExpiredTask(s)
    \/ CleanupEnd
    \/ CancelledAsleep
    \/ CancelledGathering
    \/ TickWall

SpecSweepTask == Init /\ [][NextSweepTask]_vars

\* ------------------------------------------------------------------------
\* The stream of one agent operation: event_generator (api/http/rest.py
\* 108-181) and the task it creates for agent.process(query).  The generator
\* of request c reads queue[c]; the task emits on the handler its agent was
\* constructed with (agents/base_agent.py 29, 113), which is the queue of
\* the request that first used the agent in the session.  A client makes
\* one request; the requests are those of two clients.

MaxEvents == 2
MaxQueue == 1

streamFrame == <<storeVars, deleted, resultVars, otherVars, lookup_age,
                 last_active_agent, restVars, mcpVars, authVars, debugVars,
                 sweepVars, mappingVars, lockVars, convVars>>

Progress(c) == [type |-> "progress", from |-> c]
Terminal(kind, c) == [type |-> kind, from |-> c]
Finished == {"returned", "raised", "cancelled"}

\* The queue behind self.progress_handler of the agent request c runs.
handler_queue(c) == agent_handler[using[c]]

\* Lines 111-141: the session and the agent are looked up and the task is
\* created; the task has not run, the generator passes the test of line 144
\* and waits in wait_for on its new queue.
StreamStarts(c, session_id, k) ==
    /\ gen[c] = "idle"
    /\ Starts(c, session_id, k)
    /\ gen' = [gen EXCEPT ![c] = "waiting"]
    /\ task' = [task EXCEPT ![c] = "running"]
    /\ UNCHANGED <<queue, yielded, emitted, authVars, debugVars, sweepVars,
                   mappingVars, lockVars, convVars>>

\* await self.queue.put(...), api/progress.py 42: the event is queued if
\* there is room, and the task waits if the queue is full.
AgentEmits(c) ==
    /\ task[c] = "running"
    /\ emitted[c] < MaxEvents
    /\ emitted' = [emitted EXCEPT ![c] = @ + 1]
    /\ IF Len(queue[handler_queue(c)]) < MaxQueue
       THEN /\ queue' = [queue EXCEPT ![handler_queue(c)] = Append(@, Progress(c))]
            /\ UNCHANGED task
       ELSE /\ task' = [task EXCEPT ![c] = "blocked"]
            /\ UNCHANGED queue
    /\ UNCHANGED <<gen, yielded, streamFrame>>

\* Room was made in the queue and the waiting put goes through.
PutResumes(c) ==
    /\ task[c] = "blocked"
    /\ Len(queue[handler_queue(c)]) < MaxQueue
    /\ queue' = [queue EXCEPT ![handler_queue(c)] = Append(@, Progress(c))]
    /\ task' = [task EXCEPT ![c] = "running"]
    /\ UNCHANGED <<gen, yielded, emitted, streamFrame>>

\* agent.process returns its result.
AgentReturns(c) ==
    /\ task[c] = "running"
    /\ task' = [task EXCEPT ![c] = "returned"]
    /\ UNCHANGED <<gen, queue, yielded, emitted, streamFrame>>

\* agent.process raises (as execute_tool_conversation does right after the
\* emit of base_agent.py 229, lines 240 and 247-249).
AgentRaises(c) ==
    /\ task[c] = "running"
    /\ task' = [task EXCEPT ![c] = "raised"]
    /\ UNCHANGED <<gen, queue, yielded, emitted, streamFrame>>

\* Lines 144-147 with the task not done: an event that is in the queue is
\* taken and yielded; with none the generator waits in wait_for.
LoopChecks(c) ==
    /\ gen[c] = "check"
    /\ task[c] \notin Finished
    /\ IF queue[c] # << >>
       THEN /\ yielded' = [yielded EXCEPT ![c] = Append(@, Head(queue[c]))]
            /\ queue' = [queue EXCEPT ![c] = Tail(@)]
            /\ UNCHANGED gen
       ELSE /\ gen' = [gen EXCEPT ![c] = "waiting"]
            /\ UNCHANGED <<queue, yielded>>
    /\ UNCHANGED <<task, emitted, streamFrame>>

\* queue.get() of line 146 returns an event, which is yielded.
WaitGets(c) ==
    /\ gen[c] = "waiting"
    /\ queue[c] # << >>
    /\ yielded' = [yielded EXCEPT ![c] = Append(@, Head(queue[c]))]
    /\ queue' = [queue EXCEPT ![c] = Tail(@)]
    /\ gen' = [gen EXCEPT ![c] = "check"]
    /\ UNCHANGED <<task, emitted, streamFrame>>

\* The 0.1 s of line 146 pass with no event; a keepalive comment, not a
\* data event, is yielded (lines 148-149).
WaitTimesOut(c) ==
    /\ gen[c] = "waiting"
    /\ queue[c] = << >>
    /\ gen' = [gen EXCEPT ![c] = "check"]
    /\ UNCHANGED <<task, queue, yielded, emitted, streamFrame>>

\* Lines 144 and 151-173 with the task done.  `await task` returns: what is
\* left in the queue is yielded (lines 155-160), then the result event.
\* `await task` raises: the error event is yielded (lines 171-173).
StreamFinishes(c) ==
    /\ gen[c] = "check"
    /\ task[c] \in {"returned", "raised"}
    /\ IF task[c] = "returned"
       THEN /\ yielded' = [yielded EXCEPT ![c] =
                              @ \o queue[c] \o <<Terminal("result", c)>>]
            /\ queue' = [queue EXCEPT ![c] = << >>]
       ELSE /\ yielded' = [yielded EXCEPT ![c] = Append(@, Terminal("error", c))]
            /\ UNCHANGED queue
    /\ gen' = [gen EXCEPT ![c] = "ended"]
    /\ UNCHANGED <<task, emitted, streamFrame>>

\* A finally clause that cancels the task and does not wait for it.
NotAwaited(t) == TRUE

\* The finally clause has cancelled the task and `await task` of line 179
\* returns or raises only when the task is done.
Awaited(t) == t \in Finished

\* The client closes the stream: the generator is closed where it is
\* suspended and its finally clause runs, lines 174-181; a task that is not
\* done is cancelled.
StreamClosed(c) ==
    /\ gen[c] \in {"check", "waiting"}
    /\ IF task[c] \in Finished
       THEN /\ gen' = [gen EXCEPT ![c] = "ended"]
            /\ UNCHANGED task
       ELSE /\ gen' = [gen EXCEPT ![c] = "closing"]
            /\ task' = [task EXCEPT ![c] = "cancelling"]
    /\ UNCHANGED <<queue, yielded, emitted, streamFrame>>

\* CancelledError is raised in the task where it is suspended and ends it.
TaskCancelled(c) ==
    /\ task[c] = "cancelling"
    /\ task' = [task EXCEPT ![c] = "cancelled"]
    /\ UNCHANGED <<gen, queue, yielded, emitted, streamFrame>>

\* `await task` of line 179 is over and the generator ends.
FinallyEnds(c) ==
    /\ gen[c] = "closing"
    /\ Awaited(task[c])
    /\ gen' = [gen EXCEPT ![c] = "ended"]
    /\ UNCHANGED <<task, queue, yielded, emitted, streamFrame>>

NextStream ==
    \/ \E c \in ClientPair, session_id \in SessionIds \cup {0}, k \in Kinds :
            StreamStarts(c, session_id, k)
    \/ \E c \in ClientPair : AgentEmits(c)
    \/ \E c \in ClientPair : PutResumes(c)
    \/ \E c \in ClientPair : AgentReturns(c)
    \/ \E c \in ClientPair : AgentRaises(c)
    \/ \E c \in ClientPair : LoopChecks(c)
    \/ \E c \in ClientPair : WaitGets(c)
    \/ \E c \in ClientPair : WaitTimesOut(c)
    \/ \E c \in ClientPair : StreamFinishes(c)
    \/ \E c \in ClientPair : StreamClosed(c)
    \/ \E c \in ClientPair : TaskCancelled(c)
    \/ \E c \in ClientPair : FinallyEnds(c)

SpecStream == Init /\ [][NextStream]_vars

\* ------------------------------------------------------------------------
\* The MCP session mappings and their periodic cleanup
\* (api/http/mcp.py 75-94), on the store the server's sweep works on
\* (server.py 54, 166).  With the store's lock free a tool call runs from its
\* look at the mapping to the return of get_session (mcp.py 117-136) in one
\* step, and so does the cleanup.

mappingFrame == <<lookup_age, last_active_agent, restVars, tool, created_for,
                  authVars, debugVars, sweepVars, streamVars, lockVars, convVars>>

\* A tool call of an MCP session with no mapping, or with a mapping to a
\* session that is gone: a session is created and mapped, mcp.py 124-125
\* and 131-132.
ToolCallMaps(c, mcp_sid) ==
    /\ Lookup(sessions, Lookup(mcp_map, mcp_sid)) = 0
    /\ Create(c)
    /\ mcp_map' = Mapped(mcp_map, mcp_sid, next_id)
    /\ last_request' = [last_request EXCEPT ![next_id] = wall]
    /\ UNCHANGED mappingFrame

\* A tool call of an MCP session mapped to a session of the store:
\* get_session of mcp.py 119 and 136.
ToolCallUses(c, mcp_sid) ==
    /\ Lookup(sessions, Lookup(mcp_map, mcp_sid)) # 0
    /\ Get(c, mcp_map[mcp_sid])
    /\ last_request' = [last_request EXCEPT ![mcp_map[mcp_sid]] = wall]
    /\ UNCHANGED <<mcp_map, mappingFrame>>

\* The mappings whose get_session (mcp.py 86) returns None.
stale_mcp_sids == {m \in DOMAIN mcp_map : Lookup(sessions, mcp_map[m]) = 0}

\* One round of _periodic_session_cleanup, mcp.py 83-91: get_session is
\* called for every mapped id, and returns the session with its
\* last_accessed set to now (core.py 128) or None; the mappings that got
\* None are removed.
MappingCleanup ==
    /\ store_lock = "free"
    /\ mcp_map # << >>
    /\ LET found == {mcp_map[m] : m \in DOMAIN mcp_map \ stale_mcp_sids}
       IN  /\ last_accessed' = [s \in DOMAIN last_accessed |->
                                  IF s \in found THEN wall ELSE last_accessed[s]]
           /\ last_lookup' = [s \in DOMAIN last_lookup |->
                                  IF s \in found THEN wall ELSE last_lookup[s]]
    /\ mcp_map' = Remove(mcp_map, stale_mcp_sids)
    /\ UNCHANGED <<wall, sessions, agents, store_lock, expired_checks, ref,
                   returned, next_id, next_agent, built, deleted, resultVars,
                   otherVars, last_request, mappingFrame>>

NextMapping ==
    \/ \E c \in Clients, mcp_sid \in McpIds : ToolCallMaps(c, mcp_sid)
    \/ \E c \in Clients, mcp_sid \in McpIds : ToolCallUses(c, mcp_sid)
    \/ MappingCleanup
    \/ SweepBegins
    \/ \E s \in SessionIds : CheckExpired(s)
    \/ CleanupEnd
    \/ TickWall

SpecMapping == Init /\ [][NextMapping]_vars

\* ------------------------------------------------------------------------
\* The two kinds of lock together (api/core.py 30-162).  SessionStore._lock
\* is an asyncio.Lock: a call that finds it free with nobody waiting takes
\* it without suspending, runs its block, which has no await but in
\* cleanup_expired, and releases it in the same step; a call that finds it
\* held, or others waiting, waits, and the waiting calls are served before
\* any later one.  The methods of a session take the session's lock only
\* and have no await in their block.  The calls are those of two clients
\* and of the sweep.

lockFrame == <<lookup_age, last_active_agent, restVars, mcpVars, authVars,
               debugVars, sweepVars, streamVars, mappingVars, convVars>>

StoreOps == {"create_session", "get_session", "delete_session"}

\* Nobody waits for the store's lock.
NoWaiter == \A c \in Clients : pending[c] = NotWaiting

\* A store call that takes the lock at once.
CallsStore(c, op, session_id) ==
    /\ NoWaiter
    /\ \/ op = "create_session" /\ CreateSession(c)
       \/ op = "get_session" /\ GetSession(c, session_id)
       \/ op = "delete_session" /\ DeleteSession(c, session_id)

\* The create_session calls that wait; no more sessions are asked for than
\* MaxSessions.
WaitingCreates == Cardinality({c \in Clients : pending[c].op = "create_session"})

\* A store call made while cleanup_expired holds the lock, or while others
\* wait for it: it waits at `async with self._lock`.
StoreCallWaits(c, op, session_id) ==
    /\ pending[c] = NotWaiting
    /\ store_lock # "free" \/ ~NoWaiter
    /\ op = "create_session" => next_id + WaitingCreates <= MaxSessions
    /\ pending' = [pending EXCEPT ![c] = [op |-> op, session_id |-> session_id]]
    /\ UNCHANGED <<poolVars, storeVars, deleted, resultVars, requestVars, lifeVars,
                   lockFrame>>

\* The lock is free and a waiting call gets it, runs its block and returns.
StoreCallResumes(c) ==
    /\ pending[c] # NotWaiting
    /\ \/ pending[c].op = "create_session" /\ Create(c)
       \/ pending[c].op = "get_session" /\ Get(c, pending[c].session_id)
       \/ pending[c].op = "delete_session" /\ Delete(pending[c].session_id)
                                           /\ UNCHANGED deleted
    /\ pending' = [pending EXCEPT ![c] = NotWaiting]
    /\ UNCHANGED lockFrame

\* A method of the session client c refers to: use_agent, lines 39-50, under
\* the session's lock, which is free.
SessionCall(c, k) ==
    /\ ref[c] # 0
    /\ session_lock[ref[c]] = "free"
    /\ UseAgent(c, k)

\* cleanup_expired gets the store's lock when nobody waits for it.
LockedSweepBegins ==
    /\ NoWaiter
    /\ SweepBegins

NextLocks ==
    \/ \E c \in ClientPair, op \in StoreOps, session_id \in SessionIds :
            CallsStore(c, op, session_id)
    \/ \E c \in ClientPair, op \in StoreOps, session_id \in SessionIds :
            StoreCallWaits(c, op, session_id)
    \/ \E c \in ClientPair : StoreCallResumes(c)
    \/ \E c \in ClientPair, k \in Kinds : SessionCall(c, k)
    \/ LockedSweepBegins
    \/ \E s \in SessionIds : IsExpiredTask(s)
    \/ CleanupEnd

\* The event loop runs every task that is ready: a check of the gather, the
\* end of the sweep, a waiting call once the lock is free.
FairLocks ==
    /\ \A s \in SessionIds : WF_vars(IsExpiredTask(s))
    /\ WF_vars(CleanupEnd)
    /\ \A c \in ClientPair : WF_vars(StoreCallResumes(c))

SpecLocks == Init /\ [][NextLocks]_vars /\ FairLocks

\* ------------------------------------------------------------------------
\* execute_tool_conversation (agents/base_agent.py 163-257): the loop of
\* upstream calls.  conv.made counts the calls of self.client.responses_create
\* (line 197).

MaxIterations == 3

Responses ==
    [incomplete : BOOLEAN, has_tool_calls : BOOLEAN,
     output_text : {"none", "valid", "invalid"}]

convFrame == <<poolVars, storeVars, deleted, resultVars, requestVars, lifeVars,
               lookup_age, last_active_agent, restVars, mcpVars, authVars,
               debugVars, sweepVars, streamVars, mappingVars, lockVars>>

\* A path that continues the loop without counting the iteration.
NotIncremented(iteration) == iteration

\* iteration += 1, lines 218, 242 and 253.
Incremented(iteration) == iteration + 1

\* What the body of the loop does with a response, lines 211-253: it goes
\* round again, leaves the loop with a final content, or raises.
Outcome(iteration, max_iterations, response_format, resp) ==
    LET last == iteration = max_iterations - 1
    IN  IF resp.incomplete THEN "continue"
        ELSE IF ~resp.has_tool_calls \/ last
        THEN IF response_format /\ resp.output_text # "none"
             THEN IF resp.output_text = "valid" THEN "break"
                  ELSE IF last THEN "raise" ELSE "continue"
             ELSE IF response_format /\ last THEN "raise" ELSE "break"
        ELSE "continue"

\* execute_tool_conversation is called: iteration = 0, and the test of line
\* 177 lets the first call be made or not.
ConversationStarts(max_iterations, response_format) ==
    /\ conv.pos = "idle"
    /\ conv' = [pos |-> IF 0 < max_iterations THEN "calling" ELSE "returned",
                max_iterations |-> max_iterations,
                response_format |-> response_format,
                iteration |-> 0,
                made |-> IF 0 < max_iterations THEN 1 ELSE 0,
                got |-> NoResponse]
    /\ UNCHANGED convFrame

\* responses_create returns a response; the rest of the body runs, and the
\* test of line 177 if the loop goes round.
ResponseArrives(resp) ==
    /\ conv.pos = "calling"
    /\ LET outcome == Outcome(conv.iteration, conv.max_iterations,
                              conv.response_format, resp)
           next == Incremented(conv.iteration)
       IN  CASE outcome = "break" ->
                    conv' = [conv EXCEPT !.pos = "returned", !.got = resp]
             [] outcome = "raise" ->
                    conv' = [conv EXCEPT !.pos = "raised", !.got = resp]
             [] outcome = "continue" /\ next < conv.max_iterations ->
                    /\ conv.made <= MaxIterations
                    /\ conv' = [conv EXCEPT !.iteration = next, !.made = @ + 1,
                                            !.got = resp]
             [] outcome = "continue" /\ ~(next < conv.max_iterations) ->
                    conv' = [conv EXCEPT !.iteration = next, !.pos = "returned",
                                         !.got = resp]
    /\ UNCHANGED convFrame

\* responses_create raises, and so does execute_tool_conversation.
ResponsesCreateRaises ==
    /\ conv.pos = "calling"
    /\ conv' = [conv EXCEPT !.pos = "raised"]
    /\ UNCHANGED convFrame

\* The caller has its result or its exception; the agent is free for the
\* next conversation.
ConversationOver ==
    /\ conv.pos \in {"returned", "raised"}
    /\ conv' = [conv EXCEPT !.pos = "idle"]
    /\ UNCHANGED convFrame

NextToolConversation ==
    \/ \E max_iterations \in 0..MaxIterations, response_format \in BOOLEAN :
            ConversationStarts(max_iterations, response_format)
    \/ \E resp \in Responses : ResponseArrives(resp)
    \/ ResponsesCreateRaises
    \/ ConversationOver

\* The upstream call that is awaited returns or raises.
FairToolConversation ==
    WF_vars(ResponsesCreateRaises \/ \E resp \in Responses : ResponseArrives(resp))

SpecToolConversation ==
    Init /\ [][NextToolConversation]_vars /\ FairToolConversation

\* ------------------------------------------- claims on pool exhaustion
\* C21: when get_connection ends with the pool-exhausted error, the caller of
\* responses_create gets an error other than the one it gets when the
\* upstream call fails; it is raised once, the call is not made again, and no
\* error is recorded on the connection.
C21_ExhaustionIsDistinctError ==
    [][rpc = "no_connection" =>
          /\ response' \notin {"none", "response", "ClientError"}
          /\ rpc' = "idle"
          /\ calls' = calls
          /\ stats' = stats
          /\ connection' = connection
      ]_vars

\* The connections marked in use.
InUse(conns) == {c \in DOMAIN conns : conns[c].is_in_use}

\* C22: a get_connection call that ends with the pool-exhausted error, or that
\* is cancelled while it waits, leaves every is_in_use flag as it was and its
\* caller with no connection; every connection marked in use is held by a
\* caller that received it.
C22_FailedCallMarksNothing ==
    [][/\ \A t \in Callers :
            (pc[t] \notin {"failed", "cancelled"} /\ pc'[t] \in {"failed", "cancelled"}) =>
                /\ InUse(connections') = InUse(connections)
                /\ held'[t] = 0
       /\ \A c \in InUse(connections') : \E u \in Callers : held'[u] = c
      ]_vars

\* A caller was cancelled while it waited, with a connection in use by
\* another caller.
C22_CancelledWhileOtherHolds ==
    /\ \E t \in Callers : pc[t] = "cancelled"
    /\ InUse(connections) # {}

C25_EveryAccessRefreshes ==
    [][/\ \A s \in SessionIds : last_accessed'[s] >= last_accessed[s]
       /\ \A c \in Clients, id \in AskedIds :
            (GetSession(c, id) /\ ref'[c] # 0) => last_accessed'[ref'[c]] = wall
       /\ \A c \in Clients, k \in Kinds :
            UseAgent(c, k) => last_accessed'[ref[c]] = wall
       /\ \A s \in SessionIds, key \in ResultKeys :
            UpdateLastActive(s, key) => last_accessed'[s] = wall
       /\ \A s \in SessionIds, key \in ResultKeys, m \in Metadatas :
            StoreResult(s, key, stores + 1, m) => last_accessed'[s] = wall
       /\ \A s \in SessionIds, key \in ResultKeys :
            ClearResults(s, key) => last_accessed'[s] = wall
       /\ \A s \in SessionIds :
            (ClearAllResults(s) \/ ClearConversationOn(s)) => last_accessed'[s] = wall
      ]_vars

\* C26: clear_conversation removes every cached agent instance and every
\* stored result of the session and leaves the store's map alone; a use_agent
\* that finds no instance constructed since the clear constructs a new one.
C26_ClearConversationResets ==
    [][/\ \A s \in SessionIds :
            ClearConversationOn(s) =>
                /\ \A k \in Kinds : agents'[s][k] = 0
                /\ \A key \in ResultKeys : agent_results'[s][key] = << >>
                /\ sessions' = sessions
       /\ \A c \in Clients, k \in Kinds :
            (UseAgent(c, k) /\ built[ref[c]][k] = {}) =>
                /\ returned' = next_agent
                /\ next_agent' = next_agent + 1
                /\ agents'[ref[c]][k] = returned'
      ]_vars

\* A session still in the store whose results were stored and cleared and
\* whose agent is a second instance, constructed after the clear.
C26_NewInstanceAfterClear ==
    \E s \in SessionIds, k \in Kinds :
        /\ Present(sessions, s)
        /\ agents[s][k] >= 2
        /\ built[s][k] = {agents[s][k]}
        /\ stores > 0
        /\ \A key \in ResultKeys : agent_results[s][key] = << >>

\* C27: every write to a field of a constructed session is made while the
\* writer holds that session's own lock.
C27_WritesUnderSessionLock ==
    \A w \in writes : "session" \in w.under

\* C28: the progress an agent emits while it serves a request goes to the
\* handler bound to the session for that request, whether the agent was
\* constructed or reused: to the handler the adapter installed for the
\* request, or to the one installed most recently if a later request on the
\* session has replaced it.
C28_ProgressToBoundHandler ==
    [][\A c \in Clients :
          RestEmits(c) => delivered'[c] \in {c, progress_handler[ref[c]]}]_vars


\* C29: when close() has completed no transport the pool created is left
\* open: every transport constructed since the close before it, by an
\* initialize() that succeeded or failed, is the one this close() closes.
C29_EveryTransportClosed ==
    [][\A t \in Callers, ok \in BOOLEAN :
          CloseEnds(t, ok) =>
              \A http \in (closed_mark.http_client + 1)..made.http_client :
                  http = shared_http_client]_vars

\* C30: the mapping from an MCP session id to an agent session persists:
\* of the agent sessions created for one MCP session id at most one is in the
\* store at a time, and the tool calls being served for one MCP session id
\* by sessions that are in the store are served by the same session, also
\* when the calls arrive concurrently.
C30_OneSessionPerMcpId ==
    /\ \A mcp_sid \in McpIds :
          Cardinality(created_for[mcp_sid] \cap DOMAIN sessions) <= 1
    /\ \A c1, c2 \in Clients :
          (/\ tool[c1].pos = "serving" /\ tool[c2].pos = "serving"
           /\ tool[c1].mcp_sid = tool[c2].mcp_sid
           /\ tool[c1].agent_sid \in DOMAIN sessions
           /\ tool[c2].agent_sid \in DOMAIN sessions)
          => tool[c1].agent_sid = tool[c2].agent_sid

\* A request arrives and is answered in one step.
Answered == http_last = NoRequest /\ http_last' # NoRequest

NothingDone == UNCHANGED <<storeVars, deleted, resultVars, restVars>>

\* C31 as stated: with authentication enabled a request without a verified
\* bearer token to a session route or an agent route is answered 401 and
\* changes neither the store nor starts an agent; /health and /info are
\* served without a token.
C31_UnverifiedAnswered401 ==
    [][Answered =>
          /\ (/\ http_config.auth_enabled
              /\ http_last'.endpoint \in Protected
              /\ http_last'.bearer # "verified")
                => (http_status' = 401 /\ NothingDone)
          /\ http_last'.endpoint \in Public => http_status' = 200
      ]_vars

\* C31: with authentication enabled a request without a verified bearer
\* token to a session route or an agent route is refused, with 401 if it
\* carries no token or a token that does not verify and with 500 if it
\* carries a token the server has no means to verify (OAuth not configured,
\* the issuer's keys not obtained), and it changes neither the store nor
\* starts an agent; /health and /info are served without a token.
C31_UnverifiedRefused ==
    [][Answered =>
          /\ (/\ http_config.auth_enabled
              /\ http_last'.endpoint \in Protected
              /\ http_last'.bearer # "verified")
                => /\ NothingDone
                   /\ http_status' =
                        IF http_last'.bearer = "unverifiable" THEN 500 ELSE 401
          /\ http_last'.endpoint \in Public => http_status' = 200
      ]_vars

\* A token that does not verify was refused the deletion of a session that is
\* in the store and that a stream is using.
C31_RefusedWithSessionInStore ==
    /\ http_config.auth_enabled
    /\ http_last.endpoint = "delete_session"
    /\ http_last.bearer = "refuted"
    /\ http_status = 401
    /\ Present(sessions, http_last.session_id)
    /\ req[TestClient] = "running" /\ ref[TestClient] = http_last.session_id

\* C32: the connection responses_create obtained is given back before it
\* finishes, whether the upstream call returned, raised or was cancelled and
\* with prompt-debug saving off or on: when the request has finished the
\* connection is not marked in use.
C32_ConnectionGivenBack ==
    rpc = "idle" => ~connection.is_in_use

\* C33: cleanup_expired does not hold the store's lock while it is suspended
\* waiting for something else: while is_expired checks it gathered are still
\* to run, the store's lock is not the sweep's.
C33_SweepScopedAcquisition ==
    store_lock = "sweeper" =>
        \A s \in DOMAIN expired_checks : expired_checks[s] # "todo"

\* The sweep task is cancelled and holds no lock.
CancelledHoldsNothing ==
    sweep_task # "running" =>
        /\ store_lock = "free"
        /\ \A s \in SessionIds : session_lock[s] = "free"

\* A step taken while cleanup_expired holds the store's lock removes every
\* session found expired, the sweep going on to its end, or removes none.
SweptWholly ==
    store_lock = "sweeper" =>
        \/ sessions' = sessions
        \/ /\ sweep_task' = "running"
           /\ \A s \in DOMAIN expired_checks : expired_checks[s] # "todo"
           /\ DOMAIN sessions' = DOMAIN sessions \ expired_ids

IsTerminal(e) == e.type \in {"result", "error"}

\* C35: when a streamed operation has yielded its terminal event, every
\* progress event its agent put on the queue was yielded before it, and the
\* terminal event is the only one and the last data event, whether the
\* agent returned or raised.
C35_ProgressBeforeTerminal ==
    \A c \in Clients :
        (\E i \in DOMAIN yielded[c] : IsTerminal(yielded[c][i])) =>
            /\ IsTerminal(yielded[c][Len(yielded[c])])
            /\ \A i \in 1..(Len(yielded[c]) - 1) : ~IsTerminal(yielded[c][i])
            /\ \A i \in DOMAIN queue[c] : queue[c][i] # Progress(c)

\* C36: when the event generator of a streamed operation has ended after
\* its task was started, by the agent returning, by the agent raising or by
\* the client closing the stream, the task is finished or has been
\* cancelled and awaited: no task runs on after its stream.
C36_NoTaskOutlivesStream ==
    \A c \in Clients : gen[c] = "ended" => task[c] \in Finished

\* A stream that its client closed early has ended with its task cancelled.
C36_ClosedEarlyTaskCancelled ==
    \E c \in Clients : gen[c] = "ended" /\ task[c] = "cancelled"

\* C39: an emit never blocks forever on the bounded progress queue, for any
\* number of events and of earlier requests in the session: a task that
\* waits in put waits on a queue whose generator is reading it, so that the
\* operation goes on to its terminal event.
C39_BlockedEmitHasReader ==
    \A c \in Clients :
        task[c] = "blocked" => gen[handler_queue(c)] \in {"check", "waiting"}

\* C38: a sweep that ends removes every session no client request has
\* arrived for in more than default_ttl, also a session an MCP mapping
\* refers to while the mapping cleanup runs: the mapping cleanup does not
\* extend a session's life.
C38_IdleSessionSwept ==
    [][(store_lock = "sweeper" /\ store_lock' = "free") =>
          \A s \in DOMAIN sessions :
              wall - last_request[sessions[s]] > DefaultTtl
                  => s \notin DOMAIN sessions']_vars

\* At a suspension point no session's lock is held, so the store's lock,
\* when held with a session's lock, was taken first.
NoSessionLockAcrossSuspension ==
    \A s \in SessionIds : session_lock[s] = "free"

\* C37: no execution of store and session operations deadlocks: no session's
\* lock is held across a suspension point (a session's lock is taken only
\* inside a step, by is_expired under the store's lock or by a session method
\* with no lock), a sweep that took the store's lock releases it, and every
\* store call that waits for the lock completes.
C37_NoDeadlock ==
    /\ []NoSessionLockAcrossSuspension
    /\ (store_lock = "sweeper") ~> (store_lock = "free")
    /\ \A c \in Clients : (pending[c] # NotWaiting) ~> (pending[c] = NotWaiting)

\* A store call waits while the sweep holds the store's lock with a check
\* done under a session's lock.
C37_CallWaitsForSweep ==
    /\ store_lock = "sweeper"
    /\ \E s \in DOMAIN expired_checks : expired_checks[s] # "todo"
    /\ \E c \in Clients : pending[c] # NotWaiting

\* A step of the loop: one that goes round counts the iteration once and
\* makes one call, and a response with tool calls on the last iteration ends
\* the conversation.
LoopStep ==
    conv.pos = "calling" =>
        /\ conv'.pos = "calling" =>
              /\ conv'.iteration = conv.iteration + 1
              /\ conv'.made = conv.made + 1
        /\ (conv'.got.has_tool_calls /\ conv.iteration = conv.max_iterations - 1)
              => conv'.pos \in {"returned", "raised"}

\* C40: execute_tool_conversation makes at most max_iterations upstream calls
\* and then returns or raises: every step that continues the loop increases
\* the iteration counter by exactly one, and tool calls returned on the last
\* iteration end the conversation.
C40_AtMostMaxIterationsCalls ==
    /\ [](conv.made <= conv.max_iterations)
    /\ [][LoopStep]_vars
    /\ (conv.pos = "calling") ~> (conv.pos \in {"returned", "raised"})

\* A conversation has ended on its last iteration, which brought tool calls,
\* after MaxIterations calls.
C40_ToolCallsOnLastIteration ==
    /\ conv.pos = "returned"
    /\ conv.max_iterations = MaxIterations
    /\ conv.made = MaxIterations
    /\ conv.iteration = MaxIterations - 1
    /\ conv.got.has_tool_calls

====
